---- MODULE Spec2Model ----
(***************************************************************************)
(* Verification model of the admin dashboard's users page:                 *)
(*   - the react-query cache of list results and the optimistic status     *)
(*     mutation of hooks/useUsers.ts            (specification SpecCache)  *)
(*   - the row component components/tables/UserActions.tsx                 *)
(*                                              (specification SpecActions)*)
(*   - the filter / pagination / URL handlers and the debounced fetch key  *)
(*     of pages/UsersPage/UsersPage.tsx         (specification SpecPage)   *)
(* Each specification moves only its own variables; the others keep the    *)
(* value their Init gives them (the last conjunct of every action).        *)
(***************************************************************************)
EXTENDS Integers, Sequences, FiniteSets, TLC

\* ------------------------------------------------------------------------
\* Bounds of the model
\* ------------------------------------------------------------------------

\* number of status mutations (mutate calls) a behaviour may start
MaxMutations == 2

\* number of onToggleStatus calls a behaviour of the row component records
MaxCalls == 2

\* largest page index the grid's pagination control offers
MaxPageIndex == 2

\* ------------------------------------------------------------------------
\* Data model of the cache
\* ------------------------------------------------------------------------

UserOrder == <<"u1", "u2">>

Users == {UserOrder[i] : i \in 1..Len(UserOrder)}

Status == {"active", "inactive"}

\* the status filter values of PaginationParams; one list query per value
\* (page 1, pageSize 10, empty search text)
StatusFilters == {"all", "active", "inactive"}

\* the list queries of the model: the unfiltered list and the active users
Keys == {"all", "active"}

MutIds == 1..MaxMutations

\* a query that holds no data (data === undefined)
NoData == [has |-> FALSE, users |-> <<>>, totalCount |-> 0]

\* the name field of the users, which no status update changes
UserNames == [u \in Users |-> IF u = "u1" THEN "John Doe" ELSE "Jane Roe"]

\* the list endpoint: the users that match the status filter, in id order,
\* and their count
ServerView(srv, k) ==
    LET all == [i \in 1..Len(UserOrder) |->
                  [userId |-> UserOrder[i], name |-> UserNames[UserOrder[i]],
                   status |-> srv[UserOrder[i]]]]
        sel == SelectSeq(all, LAMBDA r : k = "all" \/ r.status = k)
    IN  [has |-> TRUE, users |-> sel, totalCount |-> Len(sel)]

\* the mock API's users at start
SeedUsers == [u \in Users |-> IF u = "u1" THEN "active" ELSE "inactive"]

\* ------------------------------------------------------------------------
\* Values of the page: numbers, URL parameters, fetch parameters
\* ------------------------------------------------------------------------

\* a JavaScript number: an integer or NaN
Num(v) == [nan |-> FALSE, val |-> v]

NaN == [nan |-> TRUE, val |-> 0]

\* x + d in JavaScript arithmetic
Plus(x, d) == IF x.nan THEN NaN ELSE Num(x.val + d)

\* a URL parameter that is not in the URL (searchParams.get gives null);
\* page values are strings spelled as sequences of characters
Absent == [present |-> FALSE, val |-> ""]

AbsentPage == [present |-> FALSE, val |-> <<>>]

Param(v) == [present |-> TRUE, val |-> v]

\* useState initial value of pagination.pageSize
DefaultPageSize == 10

\* the latest step issued no list fetch
NoFetchIssued ==
    [issued |-> FALSE,
     params |-> [page |-> Num(0), pageSize |-> 0, query |-> "", status |-> ""]]

\* no fetch in flight for a query
NoFetch == [st |-> "none", data |-> NoData, epoch |-> 0, cause |-> 0, alone |-> TRUE]

\* a mutation that was not started
IdleMutation ==
    [state |-> "idle", userId |-> "-", status |-> "-",
     context |-> [k \in Keys |-> NoData], superseded |-> {}]

VARIABLES
    server,       \* the mock API's users: userId -> status
    cache,        \* query key -> list result held by the query (or NoData)
    invalidated,  \* query key -> the query's isInvalidated flag
    fetch,        \* query key -> the query's fetch in flight (or NoFetch)
    active,       \* the key the page's useUsers observer is subscribed to
    mutations     \* mutation id -> state, variables, onMutate context, and
                  \* (history) the keys whose fetch was in flight at onMutate

cacheVars == <<server, cache, invalidated, fetch, active, mutations>>

VARIABLES
    rowStatus,          \* userId -> the status of the user prop of its row
    confirmDialogOpen,  \* userId -> the row's confirmDialogOpen state
    isUpdating,         \* the isUpdating prop every row receives
    toggleCalls         \* (history) the calls of the onToggleStatus prop

actionVars == <<rowStatus, confirmDialogOpen, isUpdating, toggleCalls>>

VARIABLES
    url,                   \* the URL's search params: page, status, query
    searchQuery,           \* useState: text of the search input
    statusFilter,          \* useState: status filter
    pagination,            \* useState: pageIndex and pageSize
    debouncedSearchQuery,  \* the value useDebounce returns
    timerArmed,            \* whether useDebounce's timeout is pending
    lastFetch,             \* (history) the list fetch the latest step issued
    lastEvent              \* (history) the handler that ran in the latest step

pageVars == <<url, searchQuery, statusFilter, pagination, debouncedSearchQuery,
              timerArmed, lastFetch, lastEvent>>

\* how many mutations have run onMutate so far
NStarted == Cardinality({m \in MutIds : mutations[m].state # "idle"})

\* a mutation that has run onMutate and has not run onSettled
InFlight(m) == mutations[m].state \in {"pending", "responded", "rejected", "rolledback"}

\* the status a list result shows for user u ("-" when u is not in it)
ShownStatus(d, u) ==
    IF \E i \in 1..Len(d.users) : d.users[i].userId = u
    THEN LET i == CHOOSE j \in 1..Len(d.users) : d.users[j].userId = u
         IN  d.users[i].status
    ELSE "-"

Contains(d, u) == d.has /\ \E i \in 1..Len(d.users) : d.users[i].userId = u

\* the status a row's toggle asks for: the opposite of the rendered one
Opposite(st) == IF st = "active" THEN "inactive" ELSE "active"

\* an updater that writes the status into every user of the list
OptimisticUpdaterEveryUser(oldData, userId, status) ==
    IF ~oldData.has THEN oldData
    ELSE [oldData EXCEPT !.users =
            [i \in 1..Len(oldData.users) |-> [oldData.users[i] EXCEPT !.status = status]]]

\* the updater of setQueriesData in onMutate: undefined stays undefined,
\* otherwise the target user's status is replaced and nothing else
OptimisticUpdater(oldData, userId, status) ==
    IF ~oldData.has THEN oldData
    ELSE [oldData EXCEPT !.users =
            [i \in 1..Len(oldData.users) |->
                IF oldData.users[i].userId = userId
                THEN [oldData.users[i] EXCEPT !.status = status]
                ELSE oldData.users[i]]]

\* a write that touches only the query the page displays
SetActiveQueryData(c, userId, status) ==
    [c EXCEPT ![active] = OptimisticUpdater(c[active], userId, status)]

\* setQueriesData({queryKey: ['users']}, updater): every query under the
\* prefix is passed through the updater
SetQueriesData(c, userId, status) ==
    [k \in Keys |-> OptimisticUpdater(c[k], userId, status)]

\* cancelQueries that leaves the fetches running
CancelNothing(f) == f

\* cancelQueries({queryKey: ['users']}): every fetch in flight under the
\* prefix is cancelled, its result will be dropped
CancelQueries(f) == [k \in Keys |-> NoFetch]

\* a rollback that restores the displayed query only
RestoreActiveQuery(c, previousQueries) ==
    [c EXCEPT ![active] = IF previousQueries[active].has THEN previousQueries[active] ELSE @]

\* onError: previousQueries.forEach(([key, data]) => setQueryData(key, data));
\* setQueryData with undefined data is a no-op
RestoreQueries(c, previousQueries) ==
    [k \in Keys |-> IF previousQueries[k].has THEN previousQueries[k] ELSE c[k]]

\* a query's fetch: the request is sent, the response is not there yet.
\* History fields: epoch, the number of mutations started before it; cause,
\* the succeeded mutation whose onSettled started it (0: none); alone,
\* whether no other mutation was in flight when it started
NewFetch(cause) ==
    [st |-> "sent", data |-> NoData, epoch |-> NStarted, cause |-> cause,
     alone |-> \A n \in MutIds \ {cause} : ~InFlight(n)]

\* query.fetch() as refetch of an observed query: with data present
\* a fetch in flight is cancelled and replaced (cancelRefetch), without data
\* the fetch in flight is kept
Refetch(f, k, cause) ==
    IF f[k].st # "none" /\ ~cache[k].has THEN f
    ELSE [f EXCEPT ![k] = NewFetch(cause)]

\* the row component and the page handlers at rest, for the specifications
\* that do not move them
ActionsAtRest ==
    /\ rowStatus = SeedUsers
    /\ confirmDialogOpen = [u \in Users |-> FALSE]
    /\ isUpdating = FALSE
    /\ toggleCalls = <<>>

PageAtRest ==
    /\ url = [page |-> AbsentPage, status |-> Absent, query |-> Absent]
    /\ searchQuery = ""
    /\ statusFilter = "all"
    /\ pagination = [pageIndex |-> Num(0), pageSize |-> DefaultPageSize]
    /\ debouncedSearchQuery = ""
    /\ timerArmed = FALSE
    /\ lastFetch = NoFetchIssued
    /\ lastEvent = "load"

CacheAtRest ==
    /\ server = SeedUsers
    /\ cache = [k \in Keys |-> NoData]
    /\ invalidated = [k \in Keys |-> FALSE]
    /\ active = "all"
    /\ mutations = [m \in MutIds |-> IdleMutation]
    /\ fetch = [k \in Keys |-> NoFetch]

\* ------------------------------------------------------------------------
\* Further components, each with its own variables and specification
\* ------------------------------------------------------------------------

\* number of notifications a behaviour of the page view enqueues
MaxSnacks == 2

VARIABLES
    isOnline,     \* the browser is online (useOnlineStatus, the query
                  \* client's online manager)
    apiUsers,     \* the mock API's users: userId -> status
    params,       \* the key of the list query useUsers observes
    queries,      \* query key -> data, error, fetchStatus, isInvalidated
    mutation,     \* the status mutation of useUpdateUserStatus
    dialogUser,   \* the user whose row shows its confirmation dialog, or "-"
    snackbars,    \* (history) the notifications enqueued, oldest first
    viewEvent     \* (history) what the latest step of the page view was

viewVars == <<isOnline, apiUsers, params, queries, mutation, dialogUser, snackbars,
              viewEvent>>

\* a query that was never fetched (revertError: the error the query held
\* when its fetch started, to which a cancelled fetch reverts; cause, a
\* history field: what started the query's latest fetch)
NewQuery == [data |-> NoData, error |-> FALSE, fetchStatus |-> "idle", isInvalidated |-> FALSE,
             revertError |-> FALSE, cause |-> "none"]

\* no status mutation was started, or the last one is over
NoMutation == [state |-> "idle", userId |-> "-", status |-> "-",
               context |-> [k \in Keys |-> NoData]]

ViewAtRest ==
    /\ isOnline = TRUE
    /\ apiUsers = SeedUsers
    /\ params = "all"
    /\ queries = [k \in Keys |-> NewQuery]
    /\ mutation = NoMutation
    /\ dialogUser = "-"
    /\ snackbars = <<>>
    /\ viewEvent = "mount"

\* largest attempt index the retry delay is computed for
MaxAttemptIndex == 10

\* queries.retry of the query client
Retry == 2

VARIABLES
    phase,         \* the list fetch: "idle", "attempt" (queryFn running),
                   \* "waiting" (pause before a retry), "success", "error"
    failureCount,  \* the retryer's failureCount
    attempts,      \* (history) calls of queryFn by this fetch
    retryDelays,   \* (history) the pauses of this fetch, in ms
    attemptIndex,  \* the attempt index the retry delay was last computed for
    delay          \* the delay computed for it, in ms

retryVars == <<phase, failureCount, attempts, retryDelays, attemptIndex, delay>>

\* retryDelay: (attemptIndex) => Math.min(1000 * 2 ** attemptIndex, 30000)
RetryDelayUncapped(n) == 1000 * 2^n

RetryDelay(n) == IF 1000 * 2^n < 30000 THEN 1000 * 2^n ELSE 30000

RetryAtRest ==
    /\ phase = "idle"
    /\ failureCount = 0
    /\ attempts = 0
    /\ retryDelays = <<>>
    /\ attemptIndex = 0
    /\ delay = 1000

\* largest number of words of an error message
MaxWords == 2

VARIABLES
    errorMessage,     \* error.message of the error prop, as a sequence of words
    title,            \* the title prop of ErrorDisplay ("" when not passed)
    errorDetails,     \* getErrorDetails(error)
    alert,            \* what ErrorDisplay renders: icon, title, description,
                      \* severity
    previousDetails   \* (history) getErrorDetails of the error shown before

displayVars == <<errorMessage, title, errorDetails, alert, previousDetails>>

\* the default branch of getErrorDetails
UnknownDetails ==
    [type |-> "unknown", title |-> "Something Went Wrong",
     description |-> "An unexpected error occurred. Please try again.",
     icon |-> "ErrorOutlineIcon", severity |-> "error"]

DisplayAtRest ==
    /\ errorMessage = <<>>
    /\ title = ""
    /\ errorDetails = UnknownDetails
    /\ alert = [icon |-> UnknownDetails.icon, title |-> UnknownDetails.title,
                description |-> UnknownDetails.description,
                severity |-> UnknownDetails.severity]
    /\ previousDetails = UnknownDetails

\* largest number of failures the crash boundary catches in a behaviour
MaxCaught == 4

VARIABLES
    hasError,       \* state.hasError of the ErrorBoundary
    error,          \* state.error: the message of the caught Error, or Null
    consoleErrors,  \* (history) the errors componentDidCatch logged
    resets          \* (history) how often handleReset ran

boundaryVars == <<hasError, error, consoleErrors, resets>>

\* state.error = null
Null == "null"

BoundaryAtRest ==
    /\ hasError = FALSE
    /\ error = Null
    /\ consoleErrors = <<>>
    /\ resets = 0

\* largest number of columns a sort order names
MaxSortColumns == 1

VARIABLES
    localStorage,      \* key -> the item stored (present, text as tokens)
    setItemThrows,     \* localStorage.setItem throws (quota, storage denied)
    gridMounted,       \* the page renders the DynamicGrid
    columnVisibility,  \* useState: the entries (key, value) of the object
    sorting,           \* useState: the entries (id, desc) of the array
    gridEvent          \* (history) what the latest step of the grid was

gridVars == <<localStorage, setItemThrows, gridMounted, columnVisibility, sorting,
              gridEvent>>

\* localStorage keys for persisting table state
STORAGE_KEYS ==
    [COLUMN_VISIBILITY |-> "users-table-column-visibility",
     SORTING |-> "users-table-sorting"]

StorageKeys == {STORAGE_KEYS.COLUMN_VISIBILITY, STORAGE_KEYS.SORTING}

\* getItem gives null for it
NoItem == [present |-> FALSE, text |-> <<>>]

GridAtRest ==
    /\ localStorage = [k \in StorageKeys |-> NoItem]
    /\ setItemThrows = FALSE
    /\ gridMounted = FALSE
    /\ columnVisibility = <<>>
    /\ sorting = <<>>
    /\ gridEvent = "none"

VARIABLES
    columnMeta,  \* the ColumnMetadata of the cell rendered last: key, type, format
    cellValue,   \* the value of that cell: kind, text, items
    cell         \* what renderCellByType returned for it

cellVars == <<columnMeta, cellValue, cell>>

\* a cell value: a string, undefined, an array of groups (their names), or a
\* React element
TextValue(t) == [kind |-> "string", text |-> t, items |-> <<>>]

Undefined == [kind |-> "undefined", text |-> "undefined", items |-> <<>>]

CellAtRest ==
    /\ columnMeta = [key |-> "name", type |-> "string", format |-> "none"]
    /\ cellValue = TextValue("Ann")
    /\ cell = [branch |-> "string", presentation |-> "text", label |-> "Ann",
               color |-> "none", chips |-> <<>>]

extVars == <<viewVars, retryVars, displayVars, boundaryVars, gridVars, cellVars>>

ExtAtRest == ViewAtRest /\ RetryAtRest /\ DisplayAtRest /\ BoundaryAtRest /\ GridAtRest
    /\ CellAtRest

\* what a step of the page view leaves alone
notView == <<cacheVars, actionVars, pageVars, retryVars, displayVars, boundaryVars,
    gridVars, cellVars>>

RestButView == CacheAtRest /\ ActionsAtRest /\ PageAtRest /\ RetryAtRest /\ DisplayAtRest
    /\ BoundaryAtRest /\ GridAtRest /\ CellAtRest

\* what a step of the retryer leaves alone
notRetry == <<cacheVars, actionVars, pageVars, viewVars, displayVars, boundaryVars,
    gridVars, cellVars>>

RestButRetry == CacheAtRest /\ ActionsAtRest /\ PageAtRest /\ ViewAtRest /\ DisplayAtRest
    /\ BoundaryAtRest /\ GridAtRest /\ CellAtRest

\* what a step of the error display leaves alone
notDisplay == <<cacheVars, actionVars, pageVars, viewVars, retryVars, boundaryVars,
    gridVars, cellVars>>

RestButDisplay == CacheAtRest /\ ActionsAtRest /\ PageAtRest /\ ViewAtRest /\ RetryAtRest
    /\ BoundaryAtRest /\ GridAtRest /\ CellAtRest

\* what a step of the crash boundary leaves alone
notBoundary == <<cacheVars, actionVars, pageVars, viewVars, retryVars, displayVars,
    gridVars, cellVars>>

RestButBoundary == CacheAtRest /\ ActionsAtRest /\ PageAtRest /\ ViewAtRest /\ RetryAtRest
    /\ DisplayAtRest /\ GridAtRest /\ CellAtRest

\* what a step of the grid leaves alone
notGrid == <<cacheVars, actionVars, pageVars, viewVars, retryVars, displayVars,
    boundaryVars, cellVars>>

RestButGrid == CacheAtRest /\ ActionsAtRest /\ PageAtRest /\ ViewAtRest /\ RetryAtRest
    /\ DisplayAtRest /\ BoundaryAtRest /\ CellAtRest

\* what the rendering of a cell leaves alone
notCell == <<cacheVars, actionVars, pageVars, viewVars, retryVars, displayVars,
    boundaryVars, gridVars>>

RestButCell == CacheAtRest /\ ActionsAtRest /\ PageAtRest /\ ViewAtRest /\ RetryAtRest
    /\ DisplayAtRest /\ BoundaryAtRest /\ GridAtRest

vars == <<cacheVars, actionVars, pageVars, extVars>>

InitCache ==
    /\ server = SeedUsers
    /\ cache = [k \in Keys |-> NoData]
    /\ invalidated = [k \in Keys |-> FALSE]
    /\ active \in Keys
    /\ mutations = [m \in MutIds |-> IdleMutation]
    /\ fetch = [k \in Keys |-> IF k = active THEN NewFetch(0) ELSE NoFetch]
    /\ ActionsAtRest
    /\ PageAtRest
    /\ ExtAtRest

\* the mock list endpoint answers the request of query k with a page
\* computed from the users as they are now
ServerRespondList(k) ==
    /\ fetch[k].st = "sent"
    /\ fetch' = [fetch EXCEPT ![k] = [@ EXCEPT !.st = "ok", !.data = ServerView(server, k)]]
    /\ UNCHANGED <<server, cache, invalidated, active, mutations>>
    /\ UNCHANGED <<actionVars, pageVars, extVars>>

\* the response of query k's fetch arrives: it becomes the query's data and
\* clears isInvalidated
FetchResolve(k) ==
    /\ fetch[k].st = "ok"
    /\ cache' = [cache EXCEPT ![k] = fetch[k].data]
    /\ invalidated' = [invalidated EXCEPT ![k] = FALSE]
    /\ fetch' = [fetch EXCEPT ![k] = NoFetch]
    /\ UNCHANGED <<server, active, mutations>>
    /\ UNCHANGED <<actionVars, pageVars, extVars>>

\* the request of query k fails (simulated error) and the query gives up:
\* the fetch ends and the data stays as it is
FetchFail(k) ==
    /\ fetch[k].st = "sent"
    /\ fetch' = [fetch EXCEPT ![k] = NoFetch]
    /\ UNCHANGED <<server, cache, invalidated, active, mutations>>
    /\ UNCHANGED <<actionVars, pageVars, extVars>>

\* the page's parameters change, so useUsers observes query k: it is fetched
\* when it holds no data or is invalidated, unless a fetch for it is already
\* in flight (data stays fresh for staleTime, 5 minutes)
ChangeKey(k) ==
    /\ k # active
    /\ active' = k
    /\ fetch' = IF (~cache[k].has \/ invalidated[k]) /\ fetch[k].st = "none"
                THEN [fetch EXCEPT ![k] = NewFetch(0)]
                ELSE fetch
    /\ UNCHANGED <<server, cache, invalidated, mutations>>
    /\ UNCHANGED <<actionVars, pageVars, extVars>>

\* a displayed row's toggle calls mutate({userId, status}) with the opposite
\* of the status it renders; onMutate: cancel the fetches, snapshot every
\* query, write the new status into every query's data
OnMutate(m, userId, status) ==
    /\ mutations[m].state = "idle"
    /\ m = NStarted + 1
    /\ Contains(cache[active], userId)
    /\ status = Opposite(ShownStatus(cache[active], userId))
    /\ fetch' = CancelQueries(fetch)
    /\ cache' = SetQueriesData(cache, userId, status)
    /\ invalidated' = [k \in Keys |-> IF cache[k].has THEN FALSE ELSE invalidated[k]]
    /\ mutations' = [mutations EXCEPT ![m] =
                        [state |-> "pending", userId |-> userId, status |-> status,
                         context |-> cache,
                         superseded |-> {k \in Keys : fetch[k].st # "none"}]]
    /\ UNCHANGED <<server, active>>
    /\ UNCHANGED <<actionVars, pageVars, extVars>>

\* the mock status endpoint handles the request of mutation m: it stores
\* the status and confirms, or simulates a failure (a confirmed mutation
\* never reads its context again, so the model drops it here)
ServerUpdate(m, ok) ==
    /\ mutations[m].state = "pending"
    /\ server' = IF ok THEN [server EXCEPT ![mutations[m].userId] = mutations[m].status]
                 ELSE server
    /\ mutations' = [mutations EXCEPT ![m] =
                        IF ok THEN [@ EXCEPT !.state = "responded",
                                             !.context = [k \in Keys |-> NoData],
                                             !.superseded = {}]
                        ELSE [@ EXCEPT !.state = "rejected", !.superseded = {}]]
    /\ UNCHANGED <<cache, invalidated, fetch, active>>
    /\ UNCHANGED <<actionVars, pageVars, extVars>>

\* onError: every snapshotted query gets its snapshot back
OnError(m) ==
    /\ mutations[m].state = "rejected"
    /\ cache' = RestoreQueries(cache, mutations[m].context)
    /\ invalidated' = [k \in Keys |-> IF mutations[m].context[k].has THEN FALSE
                                       ELSE invalidated[k]]
    /\ mutations' = [mutations EXCEPT ![m].state = "rolledback"]
    /\ UNCHANGED <<server, fetch, active>>
    /\ UNCHANGED <<actionVars, pageVars, extVars>>

\* an onSettled that does not touch the cache
InvalidateNothing(m) ==
    /\ invalidated' = invalidated
    /\ fetch' = fetch

\* invalidateQueries({queryKey: ['users']}): every query is marked
\* invalidated and the observed one is refetched
InvalidateQueries(m) ==
    /\ invalidated' = [k \in Keys |-> TRUE]
    /\ fetch' = Refetch(fetch, active, IF mutations[m].state = "responded" THEN m ELSE 0)

\* onSettled, after onSuccess or onError: invalidate, and the mutation is
\* over (its variables and context are dropped)
OnSettled(m) ==
    /\ mutations[m].state \in {"responded", "rolledback"}
    /\ InvalidateQueries(m)
    /\ mutations' = [mutations EXCEPT ![m] =
                        [IdleMutation EXCEPT !.state = "settled"]]
    /\ UNCHANGED <<server, cache, active>>
    /\ UNCHANGED <<actionVars, pageVars, extVars>>

NextCache ==
    \/ \E k \in Keys : ServerRespondList(k)
    \/ \E k \in Keys : FetchResolve(k)
    \/ \E k \in Keys : FetchFail(k)
    \/ \E k \in Keys : ChangeKey(k)
    \/ \E m \in MutIds, u \in Users, s \in Status : OnMutate(m, u, s)
    \/ \E m \in MutIds, ok \in BOOLEAN : ServerUpdate(m, ok)
    \/ \E m \in MutIds : OnError(m)
    \/ \E m \in MutIds : OnSettled(m)

SpecCache ==
    /\ InitCache
    /\ [][NextCache]_vars

\* ------------------------------------------------------------------------
\* Claims about the optimistic status mutation (SpecCache)
\* ------------------------------------------------------------------------

\* C1: right after onMutate of a toggle of user u to status s, every cached
\* list result that contains u shows u with status s.
C1_OptimisticInEveryCachedPage ==
    [][\A m \in MutIds, u \in Users, s \in Status :
          OnMutate(m, u, s) =>
             \A k \in Keys : Contains(cache'[k], u) => ShownStatus(cache'[k], u) = s]_cacheVars

\* C1 witness: a mutation is pending, the server still holds the old status,
\* and both cached lists contain the user and show the target status.
C1_Witness ==
    \E m \in MutIds :
        /\ mutations[m].state = "pending"
        /\ server[mutations[m].userId] # mutations[m].status
        /\ \A k \in Keys : /\ Contains(cache[k], mutations[m].userId)
                            /\ ShownStatus(cache[k], mutations[m].userId) = mutations[m].status

\* C2: right after onError of a failed mutation, every query the mutation
\* snapshotted with data holds exactly its snapshot, so the toggled user shows
\* the status the snapshot shows.
C2_RollbackRestoresSnapshot ==
    [][\A m \in MutIds :
          OnError(m) =>
             \A k \in Keys : mutations[m].context[k].has =>
                /\ cache'[k] = mutations[m].context[k]
                /\ ShownStatus(cache'[k], mutations[m].userId)
                      = ShownStatus(mutations[m].context[k], mutations[m].userId)]_cacheVars

\* C2 witness: a mutation was rolled back, and both lists were snapshotted,
\* hold their snapshot and show the toggled user with the status before the
\* toggle.
C2_Witness ==
    \E m \in MutIds :
        /\ mutations[m].state = "rolledback"
        /\ \A k \in Keys : /\ mutations[m].context[k].has
                            /\ cache[k] = mutations[m].context[k]
                            /\ Contains(cache[k], mutations[m].userId)
                            /\ ShownStatus(cache[k], mutations[m].userId)
                                  = Opposite(mutations[m].status)

\* C3: while mutations for two different users are in flight, the rollback
\* (onError) of one never changes the status any cached list shows for the
\* other user.
C3_RollbackLeavesOtherUser ==
    [][\A m \in MutIds, n \in MutIds :
          (/\ m # n
           /\ InFlight(n)
           /\ mutations[n].userId # mutations[m].userId
           /\ OnError(m))
          => \A k \in Keys : ShownStatus(cache'[k], mutations[n].userId)
                               = ShownStatus(cache[k], mutations[n].userId)]_cacheVars

\* C4: a fetch whose response is written into the cache was started after
\* the latest onMutate: the fetches in flight when a mutation starts are
\* cancelled and never write.
C4_SupersededFetchNeverWrites ==
    [][\A k \in Keys :
          FetchResolve(k) => fetch[k].epoch = NStarted]_cacheVars

\* C4 witness: a mutation started while a fetch of the displayed query was
\* in flight; the optimistic status is in the cache and that fetch is gone.
C4_Witness ==
    \E m \in MutIds :
        /\ mutations[m].state = "pending"
        /\ m = NStarted
        /\ active \in mutations[m].superseded
        /\ fetch[active].st = "none"
        /\ ShownStatus(cache[active], mutations[m].userId) = mutations[m].status

Call(userId, newStatus) == [userId |-> userId, newStatus |-> newStatus]

\* the row renders its button and dialog (not the spinner), and no
\* confirmation dialog, which is modal, covers the buttons
ButtonsReachable == ~isUpdating /\ \A v \in Users : ~confirmDialogOpen[v]

\* a toggle click that deactivates at once, without the dialog
ToggleClickNoConfirm(u) ==
    /\ confirmDialogOpen' = confirmDialogOpen
    /\ toggleCalls' = Append(toggleCalls, Call(u, Opposite(rowStatus[u])))

\* the body of handleToggleClick: an active user opens the dialog, an
\* inactive user is activated directly
ToggleClick(u) ==
    IF rowStatus[u] = "active"
    THEN /\ confirmDialogOpen' = [confirmDialogOpen EXCEPT ![u] = TRUE]
         /\ toggleCalls' = toggleCalls
    ELSE /\ confirmDialogOpen' = confirmDialogOpen
         /\ toggleCalls' = Append(toggleCalls, Call(u, "active"))

\* click on the row's icon button
HandleToggleClick(u) ==
    /\ ButtonsReachable
    /\ Len(toggleCalls) < MaxCalls
    /\ ToggleClick(u)
    /\ UNCHANGED <<rowStatus, isUpdating>>
    /\ UNCHANGED <<cacheVars, pageVars, extVars>>

\* click on the dialog's Deactivate button
HandleConfirmDeactivate(u) ==
    /\ ~isUpdating
    /\ confirmDialogOpen[u]
    /\ Len(toggleCalls) < MaxCalls
    /\ confirmDialogOpen' = [confirmDialogOpen EXCEPT ![u] = FALSE]
    /\ toggleCalls' = Append(toggleCalls, Call(u, "inactive"))
    /\ UNCHANGED <<rowStatus, isUpdating>>
    /\ UNCHANGED <<cacheVars, pageVars, extVars>>

\* click on the dialog's Cancel button, or the dialog's onClose
HandleCancelDeactivate(u) ==
    /\ ~isUpdating
    /\ confirmDialogOpen[u]
    /\ confirmDialogOpen' = [confirmDialogOpen EXCEPT ![u] = FALSE]
    /\ UNCHANGED <<rowStatus, isUpdating, toggleCalls>>
    /\ UNCHANGED <<cacheVars, pageVars, extVars>>

\* the parent re-renders the row with another user.status
SetUserProp(u, st) ==
    /\ rowStatus[u] # st
    /\ rowStatus' = [rowStatus EXCEPT ![u] = st]
    /\ UNCHANGED <<confirmDialogOpen, isUpdating, toggleCalls>>
    /\ UNCHANGED <<cacheVars, pageVars, extVars>>

\* the parent re-renders the rows with another isUpdating
SetIsUpdating(b) ==
    /\ isUpdating # b
    /\ isUpdating' = b
    /\ UNCHANGED <<rowStatus, confirmDialogOpen, toggleCalls>>
    /\ UNCHANGED <<cacheVars, pageVars, extVars>>

InitActions ==
    /\ rowStatus \in [Users -> Status]
    /\ confirmDialogOpen = [u \in Users |-> FALSE]
    /\ isUpdating = FALSE
    /\ toggleCalls = <<>>
    /\ CacheAtRest
    /\ PageAtRest
    /\ ExtAtRest

NextActions ==
    \/ \E u \in Users : HandleToggleClick(u)
    \/ \E u \in Users : HandleConfirmDeactivate(u)
    \/ \E u \in Users : HandleCancelDeactivate(u)
    \/ \E u \in Users, st \in Status : SetUserProp(u, st)
    \/ \E b \in BOOLEAN : SetIsUpdating(b)

SpecActions ==
    /\ InitActions
    /\ [][NextActions]_vars

\* C6: onToggleStatus(u, 'inactive') is called only by confirming the open
\* dialog of u, and that dialog opens only by a toggle click on u rendered
\* active, which calls nothing; cancelling closes the dialog and calls
\* nothing; a toggle click on u rendered inactive calls
\* onToggleStatus(u, 'active') and leaves every dialog as it is.
C6_DeactivationNeedsConfirmation ==
    [][\A u \in Users :
          /\ (toggleCalls' # toggleCalls /\ toggleCalls'[Len(toggleCalls')] = Call(u, "inactive"))
                => /\ toggleCalls' = Append(toggleCalls, Call(u, "inactive"))
                   /\ confirmDialogOpen[u] /\ ~confirmDialogOpen'[u]
          /\ (~confirmDialogOpen[u] /\ confirmDialogOpen'[u])
                => rowStatus[u] = "active" /\ toggleCalls' = toggleCalls
          /\ (confirmDialogOpen[u] /\ ~confirmDialogOpen'[u] /\ HandleCancelDeactivate(u))
                => toggleCalls' = toggleCalls
          /\ (HandleToggleClick(u) /\ rowStatus[u] = "inactive")
                => /\ toggleCalls' = Append(toggleCalls, Call(u, "active"))
                   /\ confirmDialogOpen' = confirmDialogOpen]_actionVars

\* C6 witness: one user was deactivated through the dialog and the other
\* activated directly; no dialog is open.
C6_Witness ==
    /\ Len(toggleCalls) = 2
    /\ toggleCalls[1].newStatus = "inactive"
    /\ toggleCalls[2].newStatus = "active"
    /\ toggleCalls[1].userId # toggleCalls[2].userId
    /\ \A u \in Users : ~confirmDialogOpen[u]

\* ------------------------------------------------------------------------
\* The users page: filters, pagination, URL, debounced fetch key (SpecPage)
\* ------------------------------------------------------------------------

DigitChars == <<"0", "1", "2", "3", "4", "5", "6", "7", "8", "9">>

DigitSet == {DigitChars[i] : i \in 1..Len(DigitChars)}

DigitVal(c) == (CHOOSE i \in 1..Len(DigitChars) : DigitChars[i] = c) - 1

\* how many digits s holds from position i on
RECURSIVE LeadDigits(_, _)
LeadDigits(s, i) ==
    IF i > Len(s) \/ s[i] \notin DigitSet THEN 0 ELSE 1 + LeadDigits(s, i + 1)

\* the decimal value of the n digits of s that start at position i
RECURSIVE DigitsValue(_, _, _)
DigitsValue(s, i, n) ==
    IF n = 0 THEN 0 ELSE DigitsValue(s, i, n - 1) * 10 + DigitVal(s[i + n - 1])

\* parseInt(s): an optional sign and the longest run of digits after it;
\* NaN when there is no digit
ParseInt(s) ==
    LET neg   == Len(s) >= 1 /\ s[1] = "-"
        start == IF neg THEN 2 ELSE 1
        n     == LeadDigits(s, start)
    IN  IF n = 0 THEN NaN
        ELSE Num((IF neg THEN -1 ELSE 1) * DigitsValue(s, start, n))

RECURSIVE NatToString(_)
NatToString(n) ==
    IF n < 10 THEN <<DigitChars[n + 1]>>
    ELSE NatToString(n \div 10) \o <<DigitChars[(n % 10) + 1]>>

\* Number.prototype.toString of an integer
NumberToString(n) == IF n < 0 THEN <<"-">> \o NatToString(-n) ELSE NatToString(n)

\* the texts typed into the search input
Texts == {"", "al", "alice"}

\* the rows-per-page values of the grid's pagination control
PageSizes == {10, 20}

\* the URLs the page is opened with: any of the three parameters may be
\* absent, empty, well-formed or not
InitUrls ==
    [page   : {AbsentPage} \cup {Param(v) : v \in {<<>>, <<"0">>, <<"1">>, <<"2">>,
                                                   <<"2", "a">>, <<"a">>, <<"-", "1">>}},
     status : {Absent} \cup {Param(v) : v \in {"", "all", "active", "inactive", "foo"}},
     query  : {Absent} \cup {Param(v) : v \in {"", "al"}}]

\* initialPage, initialStatus, initialQuery
InitialPage(u) ==
    Plus(ParseInt(IF u.page.present /\ u.page.val # <<>> THEN u.page.val ELSE <<"1">>), -1)

InitialStatus(u) == IF u.status.present /\ u.status.val # "" THEN u.status.val ELSE "all"

InitialQuery(u) == IF u.query.present /\ u.query.val # "" THEN u.query.val ELSE ""

\* the (page, status, query) the page state is initialised to from a URL
LoadState(u) == <<InitialPage(u), InitialStatus(u), InitialQuery(u)>>

\* the params object passed to useUsers
UsersKey(pg, dq, st) ==
    [page |-> Plus(pg.pageIndex, 1), pageSize |-> pg.pageSize, query |-> dq, status |-> st]

CurrentKey == UsersKey(pagination, debouncedSearchQuery, statusFilter)

\* the render after a state change: useUsers observes newKey; when the key
\* changed and the cache holds no fresh data for it, its fetch is issued
IssueOnRender(newKey, fresh) ==
    IF newKey # CurrentKey /\ ~fresh
    THEN [issued |-> TRUE, params |-> newKey]
    ELSE NoFetchIssued

\* a filter handler that leaves the page index as it is
KeepPageIndex(prev) == prev

\* setPagination((prev) => ({ ...prev, pageIndex: 0 }))
ResetPageIndex(prev) == [prev EXCEPT !.pageIndex = Num(0)]

\* a page parameter that writes the page index instead of the page number
PageParamOffByOne(newPagination) ==
    IF newPagination.pageIndex.val = 0 THEN AbsentPage
    ELSE Param(NumberToString(newPagination.pageIndex.val))

\* handlePaginationChange's page parameter: deleted for page 1, else the
\* page number as a string
PageParam(newPagination) ==
    LET pageNum == newPagination.pageIndex.val + 1
    IN  IF pageNum = 1 THEN AbsentPage ELSE Param(NumberToString(pageNum))

\* the page is loaded with the URL u: state from the URL, useDebounce
\* starts from the search text with its timeout pending, the first fetch
\* is issued (the cache of a fresh page load is empty)
Mount(u) ==
    /\ searchQuery' = InitialQuery(u)
    /\ statusFilter' = InitialStatus(u)
    /\ pagination' = [pageIndex |-> InitialPage(u), pageSize |-> DefaultPageSize]
    /\ debouncedSearchQuery' = InitialQuery(u)
    /\ timerArmed' = TRUE
    /\ lastFetch' = [issued |-> TRUE,
                     params |-> UsersKey(pagination', debouncedSearchQuery', statusFilter')]
    /\ lastEvent' = "load"

InitPage ==
    /\ url \in InitUrls
    /\ searchQuery = InitialQuery(url)
    /\ statusFilter = InitialStatus(url)
    /\ pagination = [pageIndex |-> InitialPage(url), pageSize |-> DefaultPageSize]
    /\ debouncedSearchQuery = InitialQuery(url)
    /\ timerArmed = TRUE
    /\ lastFetch = [issued |-> TRUE, params |-> CurrentKey]
    /\ lastEvent = "load"
    /\ CacheAtRest
    /\ ActionsAtRest
    /\ ExtAtRest

\* the browser loads the page again from the URL as it is now
LoadFromUrl ==
    /\ Mount(url)
    /\ UNCHANGED url
    /\ UNCHANGED <<cacheVars, actionVars, extVars>>

\* handleSearchChange
HandleSearchChange(value, fresh) ==
    /\ value # searchQuery
    /\ searchQuery' = value
    /\ pagination' = ResetPageIndex(pagination)
    /\ url' = [url EXCEPT !.page = Param(<<"1">>),
                          !.query = IF value # "" THEN Param(value) ELSE Absent]
    /\ timerArmed' = TRUE
    /\ lastFetch' = IssueOnRender(UsersKey(pagination', debouncedSearchQuery, statusFilter),
                                  fresh)
    /\ lastEvent' = "search"
    /\ UNCHANGED <<statusFilter, debouncedSearchQuery>>
    /\ UNCHANGED <<cacheVars, actionVars, extVars>>

\* handleStatusFilterChange
HandleStatusFilterChange(value, fresh) ==
    /\ value # statusFilter
    /\ statusFilter' = value
    /\ pagination' = ResetPageIndex(pagination)
    /\ url' = [url EXCEPT !.page = Param(<<"1">>),
                          !.status = IF value = "all" THEN Absent ELSE Param(value)]
    /\ lastFetch' = IssueOnRender(UsersKey(pagination', debouncedSearchQuery, statusFilter'),
                                  fresh)
    /\ lastEvent' = "status"
    /\ UNCHANGED <<searchQuery, debouncedSearchQuery, timerArmed>>
    /\ UNCHANGED <<cacheVars, actionVars, extVars>>

\* handlePaginationChange
HandlePaginationChange(newPagination, fresh) ==
    /\ newPagination # pagination
    /\ pagination' = newPagination
    /\ url' = [url EXCEPT !.page = PageParam(newPagination)]
    /\ lastFetch' = IssueOnRender(UsersKey(pagination', debouncedSearchQuery, statusFilter),
                                  fresh)
    /\ lastEvent' = "page"
    /\ UNCHANGED <<searchQuery, statusFilter, debouncedSearchQuery, timerArmed>>
    /\ UNCHANGED <<cacheVars, actionVars, extVars>>

\* handleClearFilters
HandleClearFilters(fresh) ==
    /\ searchQuery' = ""
    /\ statusFilter' = "all"
    /\ pagination' = ResetPageIndex(pagination)
    /\ url' = [page |-> AbsentPage, status |-> Absent, query |-> Absent]
    /\ timerArmed' = (timerArmed \/ searchQuery # "")
    /\ lastFetch' = IssueOnRender(UsersKey(pagination', debouncedSearchQuery, statusFilter'),
                                  fresh)
    /\ lastEvent' = "clear"
    /\ UNCHANGED debouncedSearchQuery
    /\ UNCHANGED <<cacheVars, actionVars, extVars>>

\* useDebounce's timeout fires, 300 ms after the last change of the text
DebounceFire(fresh) ==
    /\ timerArmed
    /\ timerArmed' = FALSE
    /\ debouncedSearchQuery' = searchQuery
    /\ lastFetch' = IssueOnRender(UsersKey(pagination, debouncedSearchQuery', statusFilter),
                                  fresh)
    /\ lastEvent' = "debounce"
    /\ UNCHANGED <<url, searchQuery, statusFilter, pagination>>
    /\ UNCHANGED <<cacheVars, actionVars, extVars>>

NextPage ==
    \/ LoadFromUrl
    \/ \E v \in Texts, fresh \in BOOLEAN : HandleSearchChange(v, fresh)
    \/ \E v \in StatusFilters, fresh \in BOOLEAN : HandleStatusFilterChange(v, fresh)
    \/ \E i \in 0..MaxPageIndex, sz \in PageSizes, fresh \in BOOLEAN :
          HandlePaginationChange([pageIndex |-> Num(i), pageSize |-> sz], fresh)
    \/ \E fresh \in BOOLEAN : HandleClearFilters(fresh)
    \/ \E fresh \in BOOLEAN : DebounceFire(fresh)

SpecPage ==
    /\ InitPage
    /\ [][NextPage]_vars

\* a page index the list has: a number, not negative
OnAListPage == ~pagination.pageIndex.nan /\ pagination.pageIndex.val >= 0

\* C7: whenever a handler changes the URL, the new URL encodes the new
\* (page, status, query), and a parameter it writes is omitted at its
\* default: no page parameter for page 1, no status parameter for 'all', no
\* query parameter for the empty search text.
C7_UrlReflectsStateDefaultsOmitted ==
    [][url' # url =>
          /\ LoadState(url') = <<pagination'.pageIndex, statusFilter', searchQuery'>>
          /\ url'.page # url.page =>
                ~(pagination'.pageIndex = Num(0) /\ url'.page.present)
          /\ url'.status # url.status =>
                ~(statusFilter' = "all" /\ url'.status.present)
          /\ url'.query # url.query =>
                ~(searchQuery' = "" /\ url'.query.present)]_pageVars

\* C8: every search-text change, status-filter change and clear-filters
\* sets the page index to 0 and leaves the page size as it was.
C8_FilterChangeResetsPage ==
    [][(\/ \E v \in Texts, fresh \in BOOLEAN : HandleSearchChange(v, fresh)
        \/ \E v \in StatusFilters, fresh \in BOOLEAN : HandleStatusFilterChange(v, fresh)
        \/ \E fresh \in BOOLEAN : HandleClearFilters(fresh))
       => /\ pagination'.pageIndex = Num(0)
          /\ pagination'.pageSize = pagination.pageSize]_pageVars

\* C8 witness: a filter handler ran after the grid had changed the page
\* size, and the page is the first one with that page size.
C8_Witness ==
    /\ lastEvent \in {"search", "status", "clear"}
    /\ pagination.pageIndex = Num(0)
    /\ pagination.pageSize # DefaultPageSize

\* C9: from any page of the list, a change of the search text issues no
\* fetch (none with the pre-burst text, none with an intermediate text),
\* and the fetch issued when the debounce timeout fires uses the final text.
C9_BurstIssuesOneFetchWithFinalText ==
    [][/\ \A v \in Texts, fresh \in BOOLEAN :
             (OnAListPage /\ HandleSearchChange(v, fresh)) => ~lastFetch'.issued
       /\ \A fresh \in BOOLEAN :
             (DebounceFire(fresh) /\ lastFetch'.issued)
                => lastFetch'.params.query = searchQuery]_pageVars

\* C10: loading the page from the current URL gives the (page, status,
\* query) the page has, and a parameter missing from the URL gives its
\* default: page index 0, status 'all', empty search text.
C10_UrlRoundTrip ==
    [][LoadFromUrl =>
          /\ pagination'.pageIndex = pagination.pageIndex
          /\ statusFilter' = statusFilter
          /\ searchQuery' = searchQuery
          /\ ~url.page.present => pagination'.pageIndex = Num(0)
          /\ ~url.status.present => statusFilter' = "all"
          /\ ~url.query.present => searchQuery' = ""]_pageVars

\* C10 witness: the page was loaded from a URL the handlers wrote (page 3
\* is in no initial URL), and holds the page, status and search text of it.
C10_Witness ==
    /\ lastEvent = "load"
    /\ url = [page |-> Param(<<"3">>), status |-> Param("inactive"), query |-> Param("alice")]
    /\ pagination.pageIndex = Num(2)
    /\ statusFilter = "inactive"
    /\ searchQuery = "alice"

\* ------------------------------------------------------------------------
\* The users page under navigation that its handlers did not make (SpecNav)
\* ------------------------------------------------------------------------

\* the router delivers a new location for the mounted page (history back or
\* forward, a link): searchParams changes and the page renders again;
\* initialPage, initialStatus and initialQuery are computed again, but
\* useState ignores its argument after the first render, so the state and
\* the useUsers key stay and no fetch is issued
Navigate(u) ==
    /\ u # url
    /\ url' = u
    /\ lastFetch' = NoFetchIssued
    /\ lastEvent' = "navigate"
    /\ UNCHANGED <<searchQuery, statusFilter, pagination, debouncedSearchQuery, timerArmed>>
    /\ UNCHANGED <<cacheVars, actionVars, extVars>>

\* the locations the router delivers: well-formed URLs, as the handlers
\* write them into the history
NavUrls ==
    [page   : {AbsentPage, Param(<<"2">>)},
     status : {Absent, Param("active")},
     query  : {Absent, Param("al")}]

NextNav ==
    \/ NextPage
    \/ \E u \in NavUrls : Navigate(u)

SpecNav ==
    /\ InitPage
    /\ [][NextNav]_vars

\* C11: after any change of the URL's query parameters, by a handler of the
\* page or not, the page's (page, status, query) is what the new URL
\* encodes; and after any change of that state the URL encodes it.
C11_UrlAndStateBoundTwoWay ==
    [][(\/ url' # url
        \/ <<pagination'.pageIndex, statusFilter', searchQuery'>>
              # <<pagination.pageIndex, statusFilter, searchQuery>>)
       => LoadState(url') = <<pagination'.pageIndex, statusFilter', searchQuery'>>]_pageVars

\* ------------------------------------------------------------------------
\* The users page as rendered: list query, status mutation, notifications
\* (SpecView)
\* ------------------------------------------------------------------------

OfflineMessage == "No internet connection. Please check your network and try again."

FailedMessage == "Failed to update user status"

\* response.message of the status endpoint
SuccessMessage == "User status updated"

\* a mutate() whose onError callback enqueues nothing
OnErrorSilent(snacks) == snacks

\* the onError passed to mutate(): enqueueSnackbar('Failed to update user
\* status', { variant: 'error' })
OnErrorNotify(snacks) == Append(snacks, FailedMessage)

\* useQuery's status is 'pending': no data and no error
QueryPending(q) == ~q.data.has /\ ~q.error

\* isLoading of useQuery: isFetching && isPending
IsLoading(q) == q.fetchStatus = "fetching" /\ QueryPending(q)

\* data?.data?.users || []
RowsOf(q) == q.data.users

\* the table view UsersPage returns for the observed query
ViewOf(q) ==
    IF q.error THEN "error"
    ELSE IF IsLoading(q) THEN "skeleton"
    ELSE IF Len(RowsOf(q)) = 0 THEN "empty"
    ELSE "grid"

View == ViewOf(queries[params])

\* isPending of useMutation, passed to every row as isUpdating
IsUpdating == mutation.state = "pending"

\* a row that gets the pending flag only while its own user is updated
RowIsUpdatingOwnUser(u) == IsUpdating /\ mutation.userId = u

\* isUpdating={isUpdating}: every row gets the mutation's pending flag
RowIsUpdating(u) == IsUpdating

\* what the actions cell of user u's row renders
RowRenders(u) ==
    IF View # "grid" \/ ~Contains(queries[params].data, u) THEN "nothing"
    ELSE IF RowIsUpdating(u) THEN "spinner"
    ELSE "button"

\* the query starts a fetch: paused while offline; a query without data goes
\* back to status 'pending', which clears its error
StartFetchWhen(q, online, cause) ==
    [q EXCEPT !.fetchStatus = IF online THEN "fetching" ELSE "paused",
              !.error = IF q.data.has THEN q.error ELSE FALSE,
              !.revertError = q.error,
              !.cause = cause]

StartFetch(q, cause) == StartFetchWhen(q, isOnline, cause)

\* refetch of the observed query (cancelRefetch): a fetch in flight is
\* kept when the query has no data yet, otherwise a new fetch replaces it
RefetchObserved(qs) ==
    IF qs[params].fetchStatus # "idle" /\ ~qs[params].data.has THEN qs
    ELSE [qs EXCEPT ![params] = StartFetch(qs[params], "invalidate")]

\* the row state of UserActions lives as long as the row is rendered: the
\* dialog of a row that left the page is gone
DialogAfter(dlg, qs, p) ==
    IF dlg # "-" /\ ViewOf(qs[p]) = "grid" /\ Contains(qs[p].data, dlg) THEN dlg ELSE "-"

\* cancelQueries: a fetch in flight or paused is dropped and the query goes
\* back to the state it had when the fetch started
CancelFetches(qs) ==
    [k \in Keys |-> IF qs[k].fetchStatus = "idle" THEN qs[k]
                    ELSE [qs[k] EXCEPT !.fetchStatus = "idle", !.error = qs[k].revertError]]

\* setQueryData(key, data): undefined is ignored; otherwise the query holds
\* the data with status 'success', not invalidated
SetQueryData(q, data) ==
    IF ~data.has THEN q
    ELSE [q EXCEPT !.data = data, !.error = FALSE, !.isInvalidated = FALSE]

\* invalidateQueries({queryKey: ['users']}): every query is invalidated and
\* the observed one refetched
InvalidateAll(qs) ==
    RefetchObserved([k \in Keys |-> [qs[k] EXCEPT !.isInvalidated = TRUE]])

\* a handleToggleStatus without the check of isOnline
HandleToggleStatusUnchecked(userId, newStatus) ==
    LET cancelled == CancelFetches(queries)
    IN  /\ mutation' = [state |-> "pending", userId |-> userId, status |-> newStatus,
                        context |-> [k \in Keys |-> cancelled[k].data]]
        /\ queries' = [k \in Keys |->
                         SetQueryData(cancelled[k],
                             OptimisticUpdater(cancelled[k].data, userId, newStatus))]
        /\ snackbars' = snackbars

\* handleToggleStatus: offline, a notification and nothing else; online,
\* mutate(): the mutation is pending and onMutate runs (cancel, snapshot,
\* optimistic write)
HandleToggleStatus(userId, newStatus) ==
    IF ~isOnline
    THEN /\ snackbars' = Append(snackbars, OfflineMessage)
         /\ UNCHANGED <<queries, mutation>>
    ELSE LET cancelled == CancelFetches(queries)
         IN  /\ mutation' = [state |-> "pending", userId |-> userId, status |-> newStatus,
                             context |-> [k \in Keys |-> cancelled[k].data]]
             /\ queries' = [k \in Keys |->
                              SetQueryData(cancelled[k],
                                  OptimisticUpdater(cancelled[k].data, userId, newStatus))]
             /\ snackbars' = snackbars

\* click on the icon button of user u's row
ViewToggleClick(u) ==
    /\ RowRenders(u) = "button"
    /\ dialogUser = "-"
    /\ Len(snackbars) < MaxSnacks
    /\ IF ShownStatus(queries[params].data, u) = "active"
       THEN /\ dialogUser' = u
            /\ UNCHANGED <<queries, mutation, snackbars>>
       ELSE /\ HandleToggleStatus(u, "active")
            /\ dialogUser' = "-"
    /\ UNCHANGED <<isOnline, apiUsers, params>>
    /\ viewEvent' = IF mutation'.state = "pending" /\ mutation.state # "pending" THEN "mutate" ELSE "click"
    /\ UNCHANGED notView

\* click on Deactivate in the dialog of user u's row
ViewConfirmDeactivate(u) ==
    /\ RowRenders(u) = "button"
    /\ dialogUser = u
    /\ dialogUser' = "-"
    /\ HandleToggleStatus(u, "inactive")
    /\ UNCHANGED <<isOnline, apiUsers, params>>
    /\ viewEvent' = IF mutation'.state = "pending" THEN "mutate" ELSE "click"
    /\ UNCHANGED notView

\* click on Cancel in the dialog of user u's row
ViewCancelDeactivate(u) ==
    /\ RowRenders(u) = "button"
    /\ dialogUser = u
    /\ dialogUser' = "-"
    /\ UNCHANGED <<isOnline, apiUsers, params, queries, mutation, snackbars>>
    /\ viewEvent' = "cancel"
    /\ UNCHANGED notView

\* the status endpoint confirms: the server stores the status; onSettled
\* invalidates; the onSuccess passed to mutate enqueues the response message
MutationSucceeds ==
    /\ IsUpdating
    /\ isOnline
    /\ apiUsers' = [apiUsers EXCEPT ![mutation.userId] = mutation.status]
    /\ queries' = InvalidateAll(queries)
    /\ snackbars' = Append(snackbars, SuccessMessage)
    /\ mutation' = [NoMutation EXCEPT !.state = "success"]
    /\ dialogUser' = DialogAfter(dialogUser, queries', params)
    /\ UNCHANGED <<isOnline, params>>
    /\ viewEvent' = "mutation-success"
    /\ UNCHANGED notView

\* the status request fails: the hook's onError restores the snapshot,
\* onSettled invalidates, the onError passed to mutate enqueues the
\* notification, and the mutation's status is 'error'
MutationFails ==
    /\ IsUpdating
    /\ queries' = InvalidateAll([k \in Keys |->
                                    SetQueryData(queries[k], mutation.context[k])])
    /\ snackbars' = OnErrorNotify(snackbars)
    /\ mutation' = [NoMutation EXCEPT !.state = "error"]
    /\ dialogUser' = DialogAfter(dialogUser, queries', params)
    /\ UNCHANGED <<isOnline, apiUsers, params>>
    /\ viewEvent' = "mutation-error"
    /\ UNCHANGED notView

\* the list endpoint answers the fetch of query k
ViewFetchSucceeds(k) ==
    /\ isOnline
    /\ queries[k].fetchStatus = "fetching"
    /\ queries' = [queries EXCEPT ![k] =
                      [@ EXCEPT !.data = ServerView(apiUsers, k), !.error = FALSE,
                                !.fetchStatus = "idle", !.isInvalidated = FALSE]]
    /\ dialogUser' = DialogAfter(dialogUser, queries', params)
    /\ UNCHANGED <<isOnline, apiUsers, params, mutation, snackbars>>
    /\ viewEvent' = IF k = params /\ queries[k].error THEN "error-left" ELSE "fetch-success"
    /\ UNCHANGED notView

\* the fetch of query k fails for good (the retries are used up): the
\* query's status is 'error', its data stays
ViewFetchFails(k) ==
    /\ isOnline
    /\ queries[k].fetchStatus = "fetching"
    /\ queries' = [queries EXCEPT ![k] = [@ EXCEPT !.error = TRUE, !.fetchStatus = "idle"]]
    /\ dialogUser' = DialogAfter(dialogUser, queries', params)
    /\ UNCHANGED <<isOnline, apiUsers, params, mutation, snackbars>>
    /\ viewEvent' = "fetch-error"
    /\ UNCHANGED notView

\* an attempt of the fetch of query k fails while offline: the retry waits
\* for the network, the fetch is paused
ViewFetchPauses(k) ==
    /\ ~isOnline
    /\ queries[k].fetchStatus = "fetching"
    /\ queries' = [queries EXCEPT ![k].fetchStatus = "paused"]
    /\ dialogUser' = DialogAfter(dialogUser, queries', params)
    /\ UNCHANGED <<isOnline, apiUsers, params, mutation, snackbars>>
    /\ viewEvent' = "fetch-paused"
    /\ UNCHANGED notView

\* the browser goes offline
GoOffline ==
    /\ isOnline
    /\ isOnline' = FALSE
    /\ UNCHANGED <<apiUsers, params, queries, mutation, dialogUser, snackbars>>
    /\ viewEvent' = "offline"
    /\ UNCHANGED notView

\* the browser is online again: paused fetches continue, and the observed
\* query is refetched when it is stale (refetchOnReconnect)
GoOnline ==
    /\ ~isOnline
    /\ isOnline' = TRUE
    /\ queries' = [k \in Keys |->
                      IF queries[k].fetchStatus = "paused"
                      THEN [queries[k] EXCEPT !.fetchStatus = "fetching"]
                      ELSE IF /\ k = params
                              /\ queries[k].fetchStatus = "idle"
                              /\ (~queries[k].data.has \/ queries[k].isInvalidated)
                      THEN StartFetchWhen(queries[k], TRUE, "reconnect")
                      ELSE queries[k]]
    /\ dialogUser' = DialogAfter(dialogUser, queries', params)
    /\ UNCHANGED <<apiUsers, params, mutation, snackbars>>
    /\ viewEvent' = "online"
    /\ UNCHANGED notView

\* a filter, the pagination or the debounced text changes the parameters:
\* useUsers observes query k, which is fetched when it has no data or is
\* invalidated and no fetch of it is in flight
SetParams(k) ==
    /\ k # params
    /\ dialogUser = "-"
    /\ params' = k
    /\ queries' = IF (~queries[k].data.has \/ queries[k].isInvalidated)
                     /\ queries[k].fetchStatus = "idle"
                  THEN [queries EXCEPT ![k] = StartFetch(queries[k], "params")]
                  ELSE queries
    /\ UNCHANGED <<isOnline, apiUsers, mutation, dialogUser, snackbars>>
    /\ viewEvent' = "params"
    /\ UNCHANGED notView

\* a retry action that fetches nothing
RefetchNothing(qs) == qs

\* refetch() of the useUsers result: the observed query starts a fetch
RefetchCurrent(qs) == [qs EXCEPT ![params] = StartFetch(qs[params], "retry")]

\* Try Again in the error panel: onRetry={() => refetch()}
RetryClick ==
    /\ View = "error"
    /\ queries' = RefetchCurrent(queries)
    /\ UNCHANGED <<isOnline, apiUsers, params, mutation, dialogUser, snackbars>>
    /\ viewEvent' = "retry"
    /\ UNCHANGED notView

\* the page is opened (the query client starts as online): the observed
\* query starts its first fetch
InitView ==
    /\ isOnline = TRUE
    /\ apiUsers = SeedUsers
    /\ params \in Keys
    /\ queries = [k \in Keys |-> IF k = params THEN StartFetch(NewQuery, "mount") ELSE NewQuery]
    /\ mutation = NoMutation
    /\ dialogUser = "-"
    /\ snackbars = <<>>
    /\ viewEvent = "mount"
    /\ RestButView

NextView ==
    \/ \E k \in Keys : ViewFetchSucceeds(k)
    \/ \E k \in Keys : ViewFetchFails(k)
    \/ \E k \in Keys : ViewFetchPauses(k)
    \/ GoOffline
    \/ GoOnline
    \/ \E k \in Keys : SetParams(k)
    \/ RetryClick
    \/ \E u \in Users : ViewToggleClick(u)
    \/ \E u \in Users : ViewConfirmDeactivate(u)
    \/ \E u \in Users : ViewCancelDeactivate(u)
    \/ MutationSucceeds
    \/ MutationFails

SpecView ==
    /\ InitView
    /\ [][NextView]_vars

\* how many times the notification msg was enqueued
CountOf(snacks, msg) == Cardinality({i \in 1..Len(snacks) : snacks[i] = msg})

\* C12: the step in which a status update fails enqueues exactly one
\* notification, 'Failed to update user status'; it does not bring up the
\* list error panel; the mutation is no longer pending after it, so every
\* row the page shows renders its toggle button; and no other step enqueues
\* that notification.
C12_FailedUpdateNotFatal ==
    [][/\ MutationFails =>
             /\ snackbars' = Append(snackbars, FailedMessage)
             /\ (View' = "error" => View = "error")
             /\ (queries'[params].error => queries[params].error)
             /\ ~IsUpdating'
             /\ \A u \in Users : RowRenders(u)' \in {"nothing", "button"}
       /\ CountOf(snackbars', FailedMessage) # CountOf(snackbars, FailedMessage)
             => IsUpdating /\ mutation'.state = "error"]_viewVars

\* C12 witness: a deactivation failed: the notification is the only one, the
\* grid is shown with the user active again, and both rows offer their button.
C12_Witness ==
    /\ viewEvent = "mutation-error"
    /\ snackbars = <<FailedMessage>>
    /\ View = "grid"
    /\ queries[params].data = ServerView(SeedUsers, params)
    /\ params = "all"
    /\ \A u \in Users : RowRenders(u) = "button"

\* C13 (as stated): whenever the observed list query holds an error the page
\* renders the error panel; the retry action issues the fetch of the
\* current parameters; and when a fetch of the observed query succeeds
\* while the panel is shown, the page leaves the panel and shows the result.
C13_ErrorPanelAndRetry ==
    [][/\ queries[params].error => View = "error"
       /\ queries'[params'].error => View' = "error"
       /\ RetryClick =>
             /\ params' = params
             /\ queries'[params].fetchStatus = "fetching"
             /\ queries'[params].cause = "retry"
       /\ (ViewFetchSucceeds(params) /\ View = "error") =>
             /\ View' \in {"grid", "empty"}
             /\ queries'[params].data = ServerView(apiUsers, params)]_viewVars

\* C13 (amended): as C13, but the retry action issues the fetch at once only
\* while the browser is online; offline it creates the fetch paused, and the
\* fetch is sent when the browser is online again.
C13_ErrorPanelAndRetryOnline ==
    [][/\ queries[params].error => View = "error"
       /\ queries'[params'].error => View' = "error"
       /\ RetryClick =>
             /\ params' = params
             /\ queries'[params].fetchStatus = IF isOnline THEN "fetching" ELSE "paused"
             /\ queries'[params].cause = "retry"
       /\ GoOnline =>
             \A k \in Keys : queries[k].fetchStatus = "paused"
                                => queries'[k].fetchStatus = "fetching"
       /\ (ViewFetchSucceeds(params) /\ View = "error") =>
             /\ View' \in {"grid", "empty"}
             /\ queries'[params].data = ServerView(apiUsers, params)]_viewVars

\* C13 witness: the fetch started by the retry action succeeded: the page
\* left the error panel and shows the grid with the server's list.
C13_Witness ==
    /\ viewEvent = "error-left"
    /\ queries[params].cause = "retry"
    /\ View = "grid"
    /\ queries[params].data = ServerView(apiUsers, params)

\* ------------------------------------------------------------------------
\* Retries of a failing list fetch (SpecRetry)
\* ------------------------------------------------------------------------

\* useUsers starts a fetch of the list: the first call of queryFn
StartListFetch ==
    /\ phase \in {"idle", "success", "error"}
    /\ phase' = "attempt"
    /\ failureCount' = 0
    /\ attempts' = 1
    /\ retryDelays' = <<>>
    /\ UNCHANGED <<attemptIndex, delay>>
    /\ UNCHANGED notRetry

\* queryFn resolves
AttemptSucceeds ==
    /\ phase = "attempt"
    /\ phase' = "success"
    /\ UNCHANGED <<failureCount, attempts, retryDelays, attemptIndex, delay>>
    /\ UNCHANGED notRetry

\* queryFn rejects: the retryer computes retryDelay(failureCount) and, while
\* failureCount < retry, counts the failure and pauses for the delay;
\* otherwise the fetch is rejected and the query holds the error
AttemptFails ==
    /\ phase = "attempt"
    /\ IF failureCount < Retry
       THEN /\ failureCount' = failureCount + 1
            /\ retryDelays' = Append(retryDelays, RetryDelay(failureCount))
            /\ phase' = "waiting"
       ELSE /\ phase' = "error"
            /\ UNCHANGED <<failureCount, retryDelays>>
    /\ UNCHANGED <<attempts, attemptIndex, delay>>
    /\ UNCHANGED notRetry

\* the pause is over: queryFn is called again
RetryNow ==
    /\ phase = "waiting"
    /\ phase' = "attempt"
    /\ attempts' = attempts + 1
    /\ UNCHANGED <<failureCount, retryDelays, attemptIndex, delay>>
    /\ UNCHANGED notRetry

\* the retry delay function applied to the next attempt index
NextRetryDelay ==
    /\ attemptIndex < MaxAttemptIndex
    /\ attemptIndex' = attemptIndex + 1
    /\ delay' = RetryDelay(attemptIndex + 1)
    /\ UNCHANGED <<phase, failureCount, attempts, retryDelays>>
    /\ UNCHANGED notRetry

InitRetry ==
    /\ phase = "idle"
    /\ failureCount = 0
    /\ attempts = 0
    /\ retryDelays = <<>>
    /\ attemptIndex \in 0..MaxAttemptIndex
    /\ delay = RetryDelay(attemptIndex)
    /\ RestButRetry

NextRetry ==
    \/ StartListFetch
    \/ AttemptSucceeds
    \/ AttemptFails
    \/ RetryNow
    \/ NextRetryDelay

SpecRetry ==
    /\ InitRetry
    /\ [][NextRetry]_vars

\* C14: a list fetch calls queryFn at most 3 times, and its error reaches
\* the page exactly when the third call fails; the pause before retry
\* number n is min(1000 * 2^n, 30000) ms; and for every attempt index n the
\* retry delay is min(1000 * 2^n, 30000) ms, at most 30000 ms and not less
\* than the delay of n - 1.
C14_RetryBudgetAndBackoff ==
    [][/\ attempts' <= Retry + 1
       /\ AttemptFails => (phase' = "error" <=> attempts = Retry + 1)
       /\ (AttemptFails /\ phase' = "waiting") =>
             /\ Len(retryDelays') = Len(retryDelays) + 1
             /\ \A n \in 0..(Len(retryDelays') - 1) :
                   retryDelays'[n + 1] = IF 1000 * 2^n < 30000 THEN 1000 * 2^n ELSE 30000
       /\ delay' = (IF 1000 * 2^attemptIndex' < 30000 THEN 1000 * 2^attemptIndex' ELSE 30000)
       /\ delay' <= 30000
       /\ NextRetryDelay => delay' >= delay]_retryVars

\* C14 witness: the list fetch failed three times and holds the error after
\* pauses of 1000 and 2000 ms; and the delay of attempt index 5 is the cap,
\* not 32000 ms.
C14_Witness ==
    /\ phase = "error"
    /\ attempts = 3
    /\ failureCount = 2
    /\ retryDelays = <<1000, 2000>>
    /\ attemptIndex = 5
    /\ delay = 30000

\* ------------------------------------------------------------------------
\* The error panel ErrorDisplay and its taxonomy (SpecDisplay)
\* ------------------------------------------------------------------------

\* the words error messages are made of
Words == {"Network", "fetching", "Failed", "to", "fetch", "net::ERR_FAILED", "500",
          "Server", "error", "Timeout", "timed", "out", "404", "Not", "found", "oops"}

\* toLowerCase of a word
LowerWord(w) ==
    CASE w = "Network" -> "network"
      [] w = "Failed"  -> "failed"
      [] w = "Server"  -> "server"
      [] w = "Timeout" -> "timeout"
      [] w = "Not"     -> "not"
      [] w = "net::ERR_FAILED" -> "net::err_failed"
      [] OTHER -> w

ToLowerCase(msg) == [i \in 1..Len(msg) |-> LowerWord(msg[i])]

\* whether the lower-case word w has the text t in it
WordIncludes(w, t) ==
    \/ w = t
    \/ w = "fetching" /\ t = "fetch"
    \/ w = "net::err_failed" /\ t = "net::"

\* message.includes(text): the words of text occur in the message next to
\* each other, in order
Includes(msg, text) ==
    \E i \in 1..(Len(msg) - Len(text) + 1) :
        \A j \in 1..Len(text) : WordIncludes(msg[i + j - 1], text[j])

\* getErrorDetails
GetErrorDetails(msg) ==
    LET message == ToLowerCase(msg)
    IN  IF \/ Includes(message, <<"network">>)
           \/ Includes(message, <<"fetch">>)
           \/ Includes(message, <<"failed", "to", "fetch">>)
           \/ Includes(message, <<"net::">>)
        THEN [type |-> "network", title |-> "Connection Error",
              description |-> "Unable to connect to the server. Please check your internet connection and try again.",
              icon |-> "WifiOffIcon", severity |-> "warning"]
        ELSE IF Includes(message, <<"500">>) \/ Includes(message, <<"server", "error">>)
        THEN [type |-> "server", title |-> "Server Error",
              description |-> "The server encountered an error. Our team has been notified. Please try again later.",
              icon |-> "CloudOffIcon", severity |-> "error"]
        ELSE IF Includes(message, <<"timeout">>) \/ Includes(message, <<"timed", "out">>)
        THEN [type |-> "timeout", title |-> "Request Timeout",
              description |-> "The request took too long to complete. Please try again.",
              icon |-> "CloudOffIcon", severity |-> "warning"]
        ELSE IF Includes(message, <<"404">>) \/ Includes(message, <<"not", "found">>)
        THEN [type |-> "notFound", title |-> "Not Found",
              description |-> "The requested resource could not be found.",
              icon |-> "ErrorOutlineIcon", severity |-> "info"]
        ELSE UnknownDetails

\* the Alert of ErrorDisplay: {title || errorDetails.title}
AlertOf(details, titleProp) ==
    [icon |-> details.icon,
     title |-> IF titleProp # "" THEN titleProp ELSE details.title,
     description |-> details.description,
     severity |-> details.severity]

Messages == UNION {[1..n -> Words] : n \in 0..MaxWords}

\* the title props in use: none, and the one UsersPage passes
Titles == {"", "Failed to load users"}

\* ErrorDisplay is rendered again, with another error
RenderError(msg) ==
    /\ msg # errorMessage
    /\ errorMessage' = msg
    /\ errorDetails' = GetErrorDetails(msg)
    /\ alert' = AlertOf(errorDetails', title)
    /\ previousDetails' = errorDetails
    /\ UNCHANGED title
    /\ UNCHANGED notDisplay

InitDisplay ==
    /\ errorMessage \in Messages
    /\ title \in Titles
    /\ errorDetails = GetErrorDetails(errorMessage)
    /\ alert = AlertOf(errorDetails, title)
    /\ previousDetails = errorDetails
    /\ RestButDisplay

NextDisplay == \E msg \in Messages : RenderError(msg)

SpecDisplay ==
    /\ InitDisplay
    /\ [][NextDisplay]_vars

ErrorTypes == {"network", "server", "timeout", "notFound", "unknown"}

\* C15: getErrorDetails gives every message one of the five categories, and
\* two errors of different categories differ in icon, in title and in
\* description.
C15_TaxonomyDistinct ==
    /\ errorDetails.type \in ErrorTypes
    /\ errorDetails = GetErrorDetails(errorMessage)
    /\ errorDetails.type # previousDetails.type =>
          /\ errorDetails.icon # previousDetails.icon
          /\ errorDetails.title # previousDetails.title
          /\ errorDetails.description # previousDetails.description

\* C16: the page renders one of the four table views; the empty-state
\* message is rendered exactly when the observed query holds no error, is
\* not loading and its fetched page has 0 users; and never while the query
\* has no data yet and its fetch is not over, nor while it holds an error.
C16_EmptyStateOnlyForEmptyPage ==
    LET q == queries[params]
    IN  /\ View \in {"error", "skeleton", "empty", "grid"}
        /\ View = "empty" <=>
              (~q.error /\ ~IsLoading(q) /\ q.data.has /\ Len(q.data.users) = 0)
        /\ ~(View = "empty" /\ ~q.data.has /\ q.fetchStatus # "idle")
        /\ ~(View = "empty" /\ q.error)

\* C17: while the status mutation is pending, every row the page shows
\* renders the spinner and no button, no confirmation dialog is open, and no
\* step is a toggle click, a confirmation or a cancellation of a row, so no
\* second status update starts.
C17_NoToggleWhilePending ==
    [][IsUpdating =>
          /\ \A u \in Users : RowRenders(u) \in {"nothing", "spinner"}
          /\ dialogUser = "-"
          /\ \A u \in Users : /\ ~ViewToggleClick(u)
                               /\ ~ViewConfirmDeactivate(u)
                               /\ ~ViewCancelDeactivate(u)
          /\ (IsUpdating' => mutation' = mutation)]_viewVars

\* C17 witness: the activation of one user is pending and the grid shows
\* both users' rows with the spinner.
C17_Witness ==
    /\ IsUpdating
    /\ mutation.status = "active"
    /\ View = "grid"
    /\ \A u \in Users : RowRenders(u) = "spinner"

\* C18: every step that calls onToggleStatus appends exactly one call, made
\* by a toggle click or a confirm click on row u, and the call carries u and
\* the status opposite to the status row u renders; a click that activates
\* and a confirm click each append exactly one call.
C18_CallCarriesOppositeStatus ==
    [][/\ toggleCalls' # toggleCalls =>
             /\ Len(toggleCalls') = Len(toggleCalls) + 1
             /\ SubSeq(toggleCalls', 1, Len(toggleCalls)) = toggleCalls
             /\ LET c == toggleCalls'[Len(toggleCalls')]
                IN  /\ c.newStatus = Opposite(rowStatus[c.userId])
                    /\ \/ HandleToggleClick(c.userId)
                       \/ HandleConfirmDeactivate(c.userId)
       /\ \A u \in Users :
             \/ HandleToggleClick(u) /\ rowStatus[u] = "inactive"
             \/ HandleConfirmDeactivate(u)
             => toggleCalls' = Append(toggleCalls, toggleCalls'[Len(toggleCalls')])
      ]_actionVars


\* ------------------------------------------------------------------------
\* The crash boundary ErrorBoundary around the router (SpecBoundary)
\* ------------------------------------------------------------------------

\* the messages of the errors the subtree throws while rendering
ThrownErrors == {"TypeError", "RangeError", "Error"}

\* the fallback prop of the boundary: App passes none
FallbackProp == "none"

\* getDerivedStateFromError with the state left as it is
GetDerivedStateFromErrorIgnored(e) == [hasError |-> hasError, error |-> e]

\* static getDerivedStateFromError(error)
GetDerivedStateFromError(e) == [hasError |-> TRUE, error |-> e]

\* what render() returns for the state (hasError, error)
Render(has) ==
    IF has
    THEN IF FallbackProp # "none" THEN "fallback-prop" ELSE "default-fallback"
    ELSE "children"

\* the view rendered offers the Try Again button bound to handleReset
ResetOffered(has) == Render(has) = "default-fallback"

\* rendering the children throws e: the boundary derives its state from the
\* error and componentDidCatch logs it
ChildThrows(e) ==
    /\ Render(hasError) = "children"
    /\ Len(consoleErrors) < MaxCaught
    /\ hasError' = GetDerivedStateFromError(e).hasError
    /\ error' = GetDerivedStateFromError(e).error
    /\ consoleErrors' = Append(consoleErrors, e)
    /\ UNCHANGED resets
    /\ UNCHANGED notBoundary

\* click on Try Again: handleReset
HandleReset ==
    /\ ResetOffered(hasError)
    /\ hasError' = FALSE
    /\ error' = Null
    /\ resets' = resets + 1
    /\ UNCHANGED consoleErrors
    /\ UNCHANGED notBoundary

InitBoundary ==
    /\ hasError = FALSE
    /\ error = Null
    /\ consoleErrors = <<>>
    /\ resets = 0
    /\ RestButBoundary

NextBoundary ==
    \/ \E e \in ThrownErrors : ChildThrows(e)
    \/ HandleReset

SpecBoundary ==
    /\ InitBoundary
    /\ [][NextBoundary]_vars

\* C19: the step that catches a failure of the subtree puts the boundary in
\* the error state with the error recorded; in the error state the fallback
\* view is rendered, not the children, a reset action is offered, and only
\* the reset action leaves the error state; the reset action gives
\* hasError = false and error = null and the children are rendered again.
C19_BoundaryIsolatesUntilReset ==
    [][/\ \A e \in ThrownErrors :
             ChildThrows(e) =>
                /\ hasError' /\ error' = e
                /\ Render(hasError') # "children"
       /\ hasError =>
             /\ error # Null
             /\ Render(hasError) \in {"default-fallback", "fallback-prop"}
             /\ ResetOffered(hasError)
             /\ ENABLED HandleReset
             /\ ~HandleReset => hasError' /\ error' = error
       /\ HandleReset =>
             /\ ~hasError' /\ error' = Null
             /\ Render(hasError') = "children"
       /\ ~hasError' => error' = Null /\ Render(hasError') = "children"
      ]_boundaryVars

\* C19 witness: a failure was caught and the reset action was invoked: the
\* boundary is out of the error state and renders the children again.
C19_Witness ==
    /\ Len(consoleErrors) = 1
    /\ resets = 1
    /\ ~hasError
    /\ error = Null
    /\ Render(hasError) = "children"


\* ------------------------------------------------------------------------
\* The table state DynamicGrid persists in localStorage (SpecGrid)
\* ------------------------------------------------------------------------

\* keys of the columns the page passes to the grid
ColumnIds == {"name", "actions"}

\* sequences over S of at most n entries
SeqUpTo(S, n) == UNION {[1..m -> S] : m \in 0..n}

\* MRT_VisibilityState: an object with a boolean per column key, as its
\* entries in insertion order
VisibilityStates ==
    {v \in SeqUpTo([key : ColumnIds, value : BOOLEAN], Cardinality(ColumnIds)) :
        \A i, j \in 1..Len(v) : v[i].key = v[j].key => i = j}

\* MRT_SortingState: an array of {id, desc}
SortingStates ==
    {v \in SeqUpTo([id : ColumnIds, desc : BOOLEAN], MaxSortColumns) :
        \A i, j \in 1..Len(v) : v[i].id = v[j].id => i = j}

\* JSON text is a sequence of tokens; a string literal is three of them
StringText(str) == <<"\"", str, "\"">>

BoolText(b) == IF b THEN "true" ELSE "false"

Punctuation == {"{", "}", "[", "]", ":", ",", "\""}

\* JSON.stringify of a visibility object: {"name":false,"actions":true}
RECURSIVE VisibilityMembers(_)
VisibilityMembers(v) ==
    IF v = <<>> THEN <<>>
    ELSE LET member == StringText(v[1].key) \o <<":", BoolText(v[1].value)>>
         IN  IF Len(v) = 1 THEN member
             ELSE member \o <<",">> \o VisibilityMembers(Tail(v))

StringifyVisibility(v) == <<"{">> \o VisibilityMembers(v) \o <<"}">>

\* JSON.stringify of a sort order: [{"id":"name","desc":false}]
RECURSIVE SortingElements(_)
SortingElements(v) ==
    IF v = <<>> THEN <<>>
    ELSE LET element == <<"{">> \o StringText("id") \o <<":">> \o StringText(v[1].id)
                           \o <<",">> \o StringText("desc")
                           \o <<":", BoolText(v[1].desc), "}">>
         IN  IF Len(v) = 1 THEN element
             ELSE element \o <<",">> \o SortingElements(Tail(v))

StringifySorting(v) == <<"[">> \o SortingElements(v) \o <<"]">>

\* JSON.parse of the text of an object of booleans: ok is FALSE where
\* JSON.parse throws
ParseVisibility(t) ==
    LET inner == Len(t) - 2
        n == (inner + 1) \div 6
        at(i) == 1 + 6 * (i - 1)
        ok == /\ Len(t) >= 2
              /\ t[1] = "{"
              /\ t[Len(t)] = "}"
              /\ \/ inner = 0
                 \/ /\ (inner + 1) % 6 = 0
                    /\ \A i \in 1..n :
                          /\ t[at(i) + 1] = "\""
                          /\ t[at(i) + 2] \notin Punctuation
                          /\ t[at(i) + 3] = "\""
                          /\ t[at(i) + 4] = ":"
                          /\ t[at(i) + 5] \in {"true", "false"}
                          /\ i < n => t[at(i) + 6] = ","
    IN  IF ok
        THEN [ok |-> TRUE,
              value |-> [i \in 1..n |-> [key |-> t[at(i) + 2],
                                         value |-> t[at(i) + 5] = "true"]]]
        ELSE [ok |-> FALSE, value |-> <<>>]

\* JSON.parse of the text of an array of {id, desc}
ParseSorting(t) ==
    LET inner == Len(t) - 2
        n == (inner + 1) \div 16
        at(i) == 1 + 16 * (i - 1)
        ok == /\ Len(t) >= 2
              /\ t[1] = "["
              /\ t[Len(t)] = "]"
              /\ \/ inner = 0
                 \/ /\ (inner + 1) % 16 = 0
                    /\ \A i \in 1..n :
                          /\ t[at(i) + 1] = "{"
                          /\ SubSeq(t, at(i) + 2, at(i) + 5) = StringText("id") \o <<":">>
                          /\ t[at(i) + 6] = "\""
                          /\ t[at(i) + 7] \notin Punctuation
                          /\ t[at(i) + 8] = "\""
                          /\ t[at(i) + 9] = ","
                          /\ SubSeq(t, at(i) + 10, at(i) + 13) = StringText("desc") \o <<":">>
                          /\ t[at(i) + 14] \in {"true", "false"}
                          /\ t[at(i) + 15] = "}"
                          /\ i < n => t[at(i) + 16] = ","
    IN  IF ok
        THEN [ok |-> TRUE,
              value |-> [i \in 1..n |-> [id |-> t[at(i) + 7],
                                         desc |-> t[at(i) + 14] = "true"]]]
        ELSE [ok |-> FALSE, value |-> <<>>]

\* JSON.stringify and JSON.parse of the value kept under a key
JSONStringify(key, value) ==
    IF key = STORAGE_KEYS.COLUMN_VISIBILITY THEN StringifyVisibility(value)
    ELSE StringifySorting(value)

JSONParse(key, text) ==
    IF key = STORAGE_KEYS.COLUMN_VISIBILITY THEN ParseVisibility(text)
    ELSE ParseSorting(text)

\* loadFromStorage: stored ? JSON.parse(stored) : defaultValue, and the
\* default when JSON.parse throws
LoadFromStorage(key, defaultValue) ==
    LET stored == localStorage[key]
    IN  IF stored.present /\ stored.text # <<>>
        THEN IF JSONParse(key, stored.text).ok
             THEN JSONParse(key, stored.text).value
             ELSE defaultValue
        ELSE defaultValue

\* a saveToStorage that writes nothing
SaveToStorageNever(key, value) == localStorage

\* saveToStorage: the storage after setItem(key, JSON.stringify(value)),
\* unchanged when setItem throws
SaveToStorage(key, value) ==
    IF setItemThrows THEN localStorage
    ELSE [localStorage EXCEPT ![key] = [present |-> TRUE,
                                        text |-> JSONStringify(key, value)]]

\* onColumnVisibilityChange with an updater that gives newValue
HandleColumnVisibilityChange(newValue) ==
    /\ gridMounted
    /\ columnVisibility' = newValue
    /\ localStorage' = SaveToStorage(STORAGE_KEYS.COLUMN_VISIBILITY, newValue)
    /\ gridEvent' = "visibility-change"
    /\ UNCHANGED <<setItemThrows, gridMounted, sorting>>
    /\ UNCHANGED notGrid

\* onSortingChange with an updater that gives newValue
HandleSortingChange(newValue) ==
    /\ gridMounted
    /\ sorting' = newValue
    /\ localStorage' = SaveToStorage(STORAGE_KEYS.SORTING, newValue)
    /\ gridEvent' = "sorting-change"
    /\ UNCHANGED <<setItemThrows, gridMounted, columnVisibility>>
    /\ UNCHANGED notGrid

\* what makes the page render its table area again
PageCauses == {"list-fetch", "status-mutation", "filter-change"}

\* the page renders again after a list fetch, a status mutation or a filter
\* change: with the grid (showGrid), or with the skeleton, the empty state or
\* the error panel in its place; a grid that was not rendered before mounts
\* and runs its useState initialisers
PageRenders(cause, showGrid) ==
    /\ gridMounted' = showGrid
    /\ IF showGrid /\ ~gridMounted
       THEN /\ columnVisibility' = LoadFromStorage(STORAGE_KEYS.COLUMN_VISIBILITY, <<>>)
            /\ sorting' = LoadFromStorage(STORAGE_KEYS.SORTING, <<>>)
       ELSE IF showGrid
       THEN UNCHANGED <<columnVisibility, sorting>>
       ELSE columnVisibility' = <<>> /\ sorting' = <<>>
    /\ gridEvent' = cause
    /\ UNCHANGED <<localStorage, setItemThrows>>
    /\ UNCHANGED notGrid

\* the storage runs full or is freed: setItem starts or stops throwing
StorageQuotaChanges ==
    /\ setItemThrows' = ~setItemThrows
    /\ gridEvent' = "quota"
    /\ UNCHANGED <<localStorage, gridMounted, columnVisibility, sorting>>
    /\ UNCHANGED notGrid

\* the items a key holds when the page is first loaded: none, the empty
\* string, or a truncated text (the texts the handlers write are reached by
\* the handlers)
StoredItems(key) ==
    {NoItem, [present |-> TRUE, text |-> <<>>],
     [present |-> TRUE,
      text |-> IF key = STORAGE_KEYS.SORTING THEN <<"[", "{">> ELSE <<"{", "\"">>]}

InitGrid ==
    /\ localStorage \in {f \in [StorageKeys -> UNION {StoredItems(k) : k \in StorageKeys}] :
                            \A k \in StorageKeys : f[k] \in StoredItems(k)}
    /\ setItemThrows \in BOOLEAN
    /\ gridMounted = FALSE
    /\ columnVisibility = <<>>
    /\ sorting = <<>>
    /\ gridEvent = "none"
    /\ RestButGrid

NextGrid ==
    \/ \E v \in VisibilityStates : HandleColumnVisibilityChange(v)
    \/ \E v \in SortingStates : HandleSortingChange(v)
    \/ \E c \in PageCauses, g \in BOOLEAN : PageRenders(c, g)
    \/ StorageQuotaChanges

SpecGrid ==
    /\ InitGrid
    /\ [][NextGrid]_vars

\* the item under key holds exactly the state value
StoredIs(store, key, value) ==
    /\ store[key].present
    /\ store[key].text = JSONStringify(key, value)
    /\ JSONParse(key, store[key].text) = [ok |-> TRUE, value |-> value]

\* what a mount restores from the item under key
RestoredFrom(store, key) ==
    IF store[key].present /\ JSONParse(key, store[key].text).ok
    THEN JSONParse(key, store[key].text).value
    ELSE <<>>

\* a step of the grid's change handlers
VisibilityChange == \E v \in VisibilityStates : HandleColumnVisibilityChange(v)

SortingChange == \E v \in SortingStates : HandleSortingChange(v)

\* what C20 says of mounts and of the steps that are not changes: a mount
\* restores the stored state, or the default from an absent or unparsable
\* item; a render after a list fetch, a status mutation or a filter change
\* leaves both items unchanged; only the two fixed keys are ever stored
PersistenceFrame ==
    /\ DOMAIN localStorage' = {"users-table-column-visibility", "users-table-sorting"}
    /\ (gridMounted' /\ ~gridMounted) =>
          /\ columnVisibility' = RestoredFrom(localStorage, "users-table-column-visibility")
          /\ sorting' = RestoredFrom(localStorage, "users-table-sorting")
    /\ (\E c \in PageCauses, g \in BOOLEAN : PageRenders(c, g)) =>
          localStorage' = localStorage
    /\ localStorage' # localStorage => VisibilityChange \/ SortingChange

\* C20 (as stated): after every visibility or sorting change the item under
\* the change's key holds the new in-memory state; a mount restores the
\* stored state (the default from an absent or unparsable item); list
\* fetches, status mutations and filter changes leave both items unchanged.
C20_PersistedTableState ==
    [][/\ VisibilityChange =>
             StoredIs(localStorage', "users-table-column-visibility", columnVisibility')
       /\ SortingChange =>
             StoredIs(localStorage', "users-table-sorting", sorting')
       /\ PersistenceFrame]_gridVars

\* C20 (amended): as C20, but a change is stored only when setItem does not
\* throw; when it throws the in-memory state changes and both items keep
\* their values.
C20_PersistedTableStateWhenWritable ==
    [][/\ (VisibilityChange /\ ~setItemThrows) =>
             /\ StoredIs(localStorage', "users-table-column-visibility", columnVisibility')
             /\ localStorage'["users-table-sorting"] = localStorage["users-table-sorting"]
       /\ (SortingChange /\ ~setItemThrows) =>
             /\ StoredIs(localStorage', "users-table-sorting", sorting')
             /\ localStorage'["users-table-column-visibility"]
                   = localStorage["users-table-column-visibility"]
       /\ ((VisibilityChange \/ SortingChange) /\ setItemThrows) =>
             localStorage' = localStorage
       /\ PersistenceFrame]_gridVars

\* C20 witness: the handlers stored a hidden column and a sort order, and
\* the grid, mounted again after a list fetch, shows both as stored.
C20_Witness ==
    /\ gridEvent = "list-fetch"
    /\ gridMounted
    /\ columnVisibility = <<[key |-> "name", value |-> FALSE]>>
    /\ sorting = <<[id |-> "name", desc |-> TRUE]>>
    /\ StoredIs(localStorage, "users-table-column-visibility", columnVisibility)
    /\ StoredIs(localStorage, "users-table-sorting", sorting)


\* ------------------------------------------------------------------------
\* Cell rendering by column type: renderCellByType (SpecCell)
\* ------------------------------------------------------------------------

\* keys of the columns of the users table
ColumnKeys == {"name", "email", "status", "createdAt", "groups", "actions"}

\* the type tags of ColumnMetadata, and one tag that is none of them
ColumnTypes == {"string", "badge", "date", "chiplist", "number"}

\* columnMeta.format, "none" when the column has none
Formats == {"none", "YYYY-MM-DD"}

ArrayValue(names) == [kind |-> "array", text |-> "array", items |-> names]

NumberValue(t) == [kind |-> "number", text |-> t, items |-> <<>>]

\* the UserActions element the page puts in the actions field of a row
ElementValue == [kind |-> "element", text |-> "UserActions", items |-> <<>>]

\* the values the cells of a column of the type hold
ValuesOf(type) ==
    CASE type = "string" ->
            {TextValue("Ann"), TextValue("ann@example.com"), TextValue("active"),
             ElementValue}
      [] type = "badge" -> {TextValue("active"), TextValue("inactive")}
      [] type = "date" ->
            {TextValue("2023-05-15T10:00:00.000Z"), TextValue("2023-01-01")}
      [] type = "chiplist" ->
            {Undefined, ArrayValue(<<>>), ArrayValue(<<"Admins">>),
             ArrayValue(<<"Admins", "Sales">>)}
      [] OTHER ->
            {TextValue("Ann"), NumberValue("42"), Undefined, ArrayValue(<<>>)}

\* formatDate(value, format): the day in ISO form for 'YYYY-MM-DD', else a
\* locale string with the month's abbreviation and the year
FormatDate(text, format) ==
    LET day == IF text = "2023-05-15T10:00:00.000Z" THEN "2023-05-15" ELSE text
        readable == IF text = "2023-05-15T10:00:00.000Z" THEN "May 15, 2023"
                    ELSE IF text = "2023-01-01" THEN "Jan 1, 2023"
                    ELSE "Invalid Date"
    IN  IF format = "YYYY-MM-DD" THEN day ELSE readable

\* String(value)
StringOf(value) ==
    CASE value.kind \in {"string", "number"} -> value.text
      [] value.kind = "undefined" -> "undefined"
      [] value.kind = "array" /\ value.items = <<>> -> ""
      [] OTHER -> "[object Object]"

\* what React shows for a value returned as a node: a string or a number as
\* text, an element as the element, undefined as nothing
NodeOf(value) ==
    CASE value.kind \in {"string", "number"} -> "text"
      [] value.kind = "element" -> "element"
      [] OTHER -> "nothing"

\* a cell: the case of the switch taken and what it returned
CellOf(branch, presentation, label, color, chips) ==
    [branch |-> branch, presentation |-> presentation, label |-> label,
     color |-> color, chips |-> chips]

\* a renderCellByType whose switch is on the kind of the value
RenderCellByValueKind(value, meta) ==
    CASE value.kind = "array" -> CellOf("chiplist", "chips", "", "none", value.items)
      [] value.kind = "element" -> CellOf("string", "element", value.text, "none", <<>>)
      [] OTHER -> CellOf("string", "text", value.text, "none", <<>>)

\* renderCellByType(value, columnMeta)
RenderCellByType(value, meta) ==
    CASE meta.type = "string" ->
            CellOf("string", NodeOf(value), value.text, "none", <<>>)
      [] meta.type = "badge" ->
            CellOf("badge", "badge", value.text,
                   IF value.text = "active" THEN "success" ELSE "default", <<>>)
      [] meta.type = "date" ->
            CellOf("date", "date", FormatDate(value.text, meta.format), "none", <<>>)
      [] meta.type = "chiplist" ->
            IF value.kind = "undefined" \/ Len(value.items) = 0
            THEN CellOf("chiplist", "placeholder", "No groups", "none", <<>>)
            ELSE CellOf("chiplist", "chips", "", "none", value.items)
      [] OTHER ->
            CellOf("default", "stringified", StringOf(value), "none", <<>>)

\* the grid renders the cell of a column for a value
RenderCell(meta, value) ==
    /\ <<meta, value>> # <<columnMeta, cellValue>>
    /\ columnMeta' = meta
    /\ cellValue' = value
    /\ cell' = RenderCellByType(value, meta)
    /\ UNCHANGED notCell

ColumnMetas == [key : ColumnKeys, type : ColumnTypes, format : Formats]

InitCell ==
    /\ columnMeta = [key |-> "name", type |-> "string", format |-> "none"]
    /\ cellValue = TextValue("Ann")
    /\ cell = RenderCellByType(cellValue, columnMeta)
    /\ RestButCell

NextCell ==
    \E meta \in ColumnMetas : \E value \in ValuesOf(meta.type) : RenderCell(meta, value)

SpecCell ==
    /\ InitCell
    /\ [][NextCell]_vars

\* the presentation C21 names for a type tag and a value
PresentationNamed(type, value) ==
    CASE type = "string" -> "text"
      [] type = "badge" -> "badge"
      [] type = "date" -> "date"
      [] type = "chiplist" ->
            IF value.kind = "undefined" \/ value.items = <<>> THEN "placeholder"
            ELSE "chips"
      [] OTHER -> "stringified"

\* the case of the switch a type tag selects
BranchNamed(type) ==
    IF type \in {"string", "badge", "date", "chiplist"} THEN type ELSE "default"

\* C21 (as stated): a cell of type 'string' is plain text, of type 'badge' a
\* status badge, of type 'date' a formatted date, of type 'chiplist' the
\* list of tags or the 'No groups' placeholder for an empty or missing list,
\* and of any other type the stringified value; the choice depends on the
\* type tag only, not on the key or the value.
C21_DispatchOnTypeOnly ==
    /\ cell.presentation = PresentationNamed(columnMeta.type, cellValue)
    /\ cell.branch = BranchNamed(columnMeta.type)

\* C21 (amended): as C21, but a cell of type 'string' is the value itself:
\* plain text for a string, and the element for a value that is a React
\* element, as in the actions column.
C21_DispatchOnTypeOnlyValueAsIs ==
    /\ cell.branch = BranchNamed(columnMeta.type)
    /\ columnMeta.type # "string" =>
          cell.presentation = PresentationNamed(columnMeta.type, cellValue)
    /\ columnMeta.type = "string" =>
          /\ cell.presentation = (IF cellValue.kind = "element" THEN "element" ELSE "text")
          /\ cell.label = cellValue.text
    /\ columnMeta.type = "badge" => cell.label = cellValue.text
    /\ columnMeta.type = "date" =>
          cell.label = FormatDate(cellValue.text, columnMeta.format)
    /\ cell.presentation = "chips" => cell.chips = cellValue.items /\ cell.chips # <<>>
    /\ cell.presentation = "placeholder" => cell.label = "No groups"
    /\ cell.presentation = "stringified" => cell.label = StringOf(cellValue)

\* C21 witness: a column keyed 'groups' with a type tag that is none of the
\* four shows the stringified value, here of a missing list.
C21_Witness ==
    /\ columnMeta.key = "groups"
    /\ columnMeta.type = "number"
    /\ cellValue = Undefined
    /\ cell.presentation = "stringified"
    /\ cell.label = "undefined"


\* C22: while a status mutation of user u to status s is pending, no fetch
\* result written to the cache makes a cached page show u with another
\* status than s, whenever the fetch was started.
C22_NoFetchUndoesPendingStatus ==
    [][\A k \in Keys :
          FetchResolve(k) =>
             \A m \in MutIds :
                (/\ mutations[m].state = "pending"
                 /\ Contains(cache'[k], mutations[m].userId))
                => ShownStatus(cache'[k], mutations[m].userId) = mutations[m].status
      ]_cacheVars


\* C23: the optimistic update of onMutate for user u and status s changes,
\* in every cached list result, only the status of u: the result still has
\* the same users in the same order and the same total count, the users
\* other than u are unchanged, u differs at most in its status, which is s;
\* results without u and queries without data are left as they were.
C23_OptimisticUpdateFrame ==
    [][\A m \in MutIds, u \in Users, s \in Status :
          OnMutate(m, u, s) =>
             \A k \in Keys :
                LET old == cache[k]
                    new == cache'[k]
                IN  /\ new.has = old.has
                    /\ new.totalCount = old.totalCount
                    /\ Len(new.users) = Len(old.users)
                    /\ \A i \in 1..Len(old.users) :
                          /\ new.users[i].userId = old.users[i].userId
                          /\ old.users[i].userId # u => new.users[i] = old.users[i]
                          /\ old.users[i].userId = u =>
                                /\ new.users[i].status = s
                                /\ new.users[i] = [old.users[i] EXCEPT !.status = s]
                    /\ ~Contains(old, u) => new = old
                    /\ ~old.has => new = NoData
      ]_cacheVars

\* C23 witness: u1 was deactivated optimistically while both lists were
\* cached: the unfiltered list shows u1 inactive with its name and the
\* other user as the server holds them, and the mutation's snapshot differs
\* from the cache only there.
C23_Witness ==
    /\ \E m \in MutIds :
          /\ mutations[m].state = "pending"
          /\ mutations[m].userId = "u1"
          /\ mutations[m].status = "inactive"
          /\ mutations[m].context["all"] = ServerView(SeedUsers, "all")
          /\ mutations[m].context["active"] = ServerView(SeedUsers, "active")
    /\ server = SeedUsers
    /\ cache["all"] = ServerView([SeedUsers EXCEPT !["u1"] = "inactive"], "all")
    /\ Len(cache["active"].users) = 1
    /\ cache["active"].users[1] = [userId |-> "u1", name |-> UserNames["u1"],
                                   status |-> "inactive"]


\* C24: a click that calls handleToggleStatus while the browser is offline
\* (activating an inactive user, or confirming a deactivation) starts no
\* mutation, sends nothing to the server, leaves every query as it is (data,
\* fetch and invalidation) and enqueues exactly one notification, the one
\* about the missing connection; no other step enqueues that notification.
C24_OfflineToggleIssuesNothing ==
    [][/\ \A u \in Users :
             (/\ ~isOnline
              /\ \/ ViewConfirmDeactivate(u)
                 \/ ViewToggleClick(u) /\ ShownStatus(queries[params].data, u) = "inactive")
             => /\ mutation' = mutation
                /\ ~IsUpdating'
                /\ apiUsers' = apiUsers
                /\ queries' = queries
                /\ snackbars' = Append(snackbars, OfflineMessage)
       /\ CountOf(snackbars', OfflineMessage) # CountOf(snackbars, OfflineMessage)
             => /\ ~isOnline
                /\ \E u \in Users : ViewConfirmDeactivate(u) \/ ViewToggleClick(u)
      ]_viewVars

\* C24 witness: offline, a deactivation was confirmed: the notification
\* about the connection is the only one, no mutation was started, and the
\* list still shows the user as active.
C24_Witness ==
    /\ ~isOnline
    /\ viewEvent = "click"
    /\ snackbars = <<OfflineMessage>>
    /\ mutation = NoMutation
    /\ dialogUser = "-"
    /\ queries[params].data.has
    /\ ShownStatus(queries[params].data, "u1") = "active"
    /\ apiUsers = SeedUsers


\* C25: the parameters of every list fetch the page issues are well-formed,
\* whatever URL the page was loaded from and whatever the handlers did
\* since: page is an integer >= 1, status is 'all', 'active' or 'inactive',
\* and pageSize is a size of the grid, 10 as long as the grid did not change
\* it (a load sets it to 10).
C25_FetchParamsWellFormed ==
    lastFetch.issued =>
       /\ ~lastFetch.params.page.nan
       /\ lastFetch.params.page.val >= 1
       /\ lastFetch.params.status \in StatusFilters
       /\ lastFetch.params.pageSize \in PageSizes
       /\ lastEvent = "load" => lastFetch.params.pageSize = DefaultPageSize

====
